---- MODULE Spec2Model ----
(***************************************************************************)
(* EventCompanionBot: the per-user interaction state machine, the callback *)
(* router, the broadcast fan-out and the alert scheduler, over the SQLite  *)
(* tables of src/EventCompanionBot.py.                                     *)
(*                                                                         *)
(* Texts are sequences of one-character strings, so that strip(), lower(), *)
(* len() and norm_phone() are computed and not assumed.  Times are minutes *)
(* after 2026-01-01 00:00 in APP_TZ.  One handler call is one action: the  *)
(* dispatcher processes updates one at a time; only the alert job, which   *)
(* awaits between its sends, is split into steps.                          *)
(***************************************************************************)
EXTENDS Integers, Sequences, FiniteSets, TLC

(* ------------------------------ bounds -------------------------------- *)
MaxEvents == 2
MaxTicks == 3
MaxAlerts == 2
MaxPhotos == 1
MaxQuestions == 2
MaxRestarts == 2

(* --------------------------- sampled inputs --------------------------- *)
Users == {101, 102}
Organizers == {101}
Attendees == {102, 103}
Clock == {15 * k : k \in 0..MaxTicks}
EventIds == 1..MaxEvents
\* the event of the updates that follow a single event
OneEvent == {1}
\* the numeric argument of a p:rate token: the two the keyboard offers, and another
Ratings == {1, -1, 5}

NoEvent == 0
NoUser == 0
NullText == <<"NULL">>
NullTime == [set |-> FALSE]
NullNum == [set |-> FALSE]
Num(n) == [set |-> TRUE, v |-> n]

T_space == <<" ">>
T_a == <<"a">>
T_Al == <<"A", "l">>
T_AlPadded == <<" ", "A", "l", " ">>
T_Co == <<"C", "o">>
T_amp == <<"R", "&", "D">>
T_cancel == <<"c", "a", "n", "c", "e", "l">>
T_Cancel == <<"C", "a", "n", "c", "e", "l">>
T_slash_cancel == <<"/", "c", "a", "n", "c", "e", "l">>
T_clear == <<"c", "l", "e", "a", "r">>
T_time30 == <<"2","0","2","6","-","0","1","-","0","1"," ","0","0",":","3","0">>
T_time45 == <<"2","0","2","6","-","0","1","-","0","1"," ","0","0",":","4","5">>
T_badtime == <<"2","0","2","6","-","0","1","-","0","1">>
T_wifi == <<"s","s","i","d",":","a","b","\n","p","a","s","s","w","o","r","d",":","1","2","3","4","5","6","7","8">>
T_wifi_short == <<"s","s","i","d",":","a","b","\n","p","a","s","s","w","o","r","d",":","1">>
T_org == <<"n","a","m","e",":","A","l","\n","p","h","o","n","e",":","1">>
P_plain == <<"+", "1", " ", "2", "-", "3">>
P_letters == <<"a", "b">>
P_empty == <<>>

(* ------------------------------ helpers ------------------------------- *)
RECURSIVE LStrip(_)
LStrip(s) == IF s # <<>> /\ Head(s) = " " THEN LStrip(Tail(s)) ELSE s

RECURSIVE RStrip(_)
RStrip(s) == IF s # <<>> /\ s[Len(s)] = " " THEN RStrip(SubSeq(s, 1, Len(s) - 1)) ELSE s

Strip(s) == RStrip(LStrip(s))

UpperToLower == [c \in {"A", "C", "E", "L", "N", "R", "D"} |->
                   CASE c = "A" -> "a" [] c = "C" -> "c" [] c = "E" -> "e"
                     [] c = "L" -> "l" [] c = "N" -> "n" [] c = "R" -> "r"
                     [] c = "D" -> "d"]

Lower(s) == [i \in 1..Len(s) |-> IF s[i] \in DOMAIN UpperToLower THEN UpperToLower[s[i]] ELSE s[i]]

OrEmpty(t) == IF t = NullText THEN <<>> ELSE t

Digits == {"0", "1", "2", "3", "4", "5", "6", "7", "8", "9"}

DigitVal == [c \in Digits |->
               CASE c = "0" -> 0 [] c = "1" -> 1 [] c = "2" -> 2 [] c = "3" -> 3
                 [] c = "4" -> 4 [] c = "5" -> 5 [] c = "6" -> 6 [] c = "7" -> 7
                 [] c = "8" -> 8 [] c = "9" -> 9]

norm_phone(p) ==
    IF p = NullText \/ p = <<>> THEN NullText
    ELSE LET a == SelectSeq(Strip(p), LAMBDA c : c # " " /\ c # "-")
             b == SelectSeq(a, LAMBDA c : c \in Digits \cup {"+"})
         IN  IF b = <<>> THEN NullText ELSE b

EscapeChar(c) ==
    CASE c = "&" -> <<"&", "a", "m", "p", ";">>
      [] c = "<" -> <<"&", "l", "t", ";">>
      [] c = ">" -> <<"&", "g", "t", ";">>
      [] OTHER -> <<c>>

RECURSIVE html_escape(_)
html_escape(s) ==
    IF s = NullText \/ s = <<>> THEN <<>>
    ELSE EscapeChar(Head(s)) \o html_escape(Tail(s))

TwoDigits(s, i) == 10 * DigitVal[s[i]] + DigitVal[s[i + 1]]

DaysBeforeMonth == <<0, 31, 59, 90, 120, 151, 181, 212, 243, 273, 304, 334>>
DaysInMonth == <<31, 28, 31, 30, 31, 30, 31, 31, 30, 31, 30, 31>>

\* strptime(text.strip(), "%Y-%m-%d %H:%M") on zero-padded input of the year 2026;
\* the result carries APP_TZ (tz |-> TRUE) and is counted in minutes.
parse_event_time(text) ==
    LET s == Strip(text) IN
    IF /\ Len(s) = 16
       /\ \A i \in {1, 2, 3, 4, 6, 7, 9, 10, 12, 13, 15, 16} : s[i] \in Digits
       /\ s[5] = "-" /\ s[8] = "-" /\ s[11] = " " /\ s[14] = ":"
       /\ SubSeq(s, 1, 4) = <<"2", "0", "2", "6">>
       /\ TwoDigits(s, 6) \in 1..12
       /\ TwoDigits(s, 9) \in 1..DaysInMonth[TwoDigits(s, 6)]
       /\ TwoDigits(s, 12) \in 0..23
       /\ TwoDigits(s, 15) \in 0..59
    THEN [set |-> TRUE, tz |-> TRUE,
          min |-> ((DaysBeforeMonth[TwoDigits(s, 6)] + TwoDigits(s, 9) - 1) * 24
                    + TwoDigits(s, 12)) * 60 + TwoDigits(s, 15)]
    ELSE NullTime

\* str.splitlines, str.startswith, str.split(":", 1)
IndexOf(s, c) ==
    IF \E i \in 1..Len(s) : s[i] = c
    THEN CHOOSE i \in 1..Len(s) : s[i] = c /\ \A j \in 1..(i - 1) : s[j] # c
    ELSE 0

RECURSIVE SplitLines(_)
SplitLines(s) ==
    IF s = <<>> THEN <<>>
    ELSE LET i == IndexOf(s, "\n")
         IN  IF i = 0 THEN <<s>>
             ELSE <<SubSeq(s, 1, i - 1)>> \o SplitLines(SubSeq(s, i + 1, Len(s)))

StartsWith(s, prefix) == Len(s) >= Len(prefix) /\ SubSeq(s, 1, Len(prefix)) = prefix
BeforeColon(line) == SubSeq(line, 1, IndexOf(line, ":") - 1)
AfterColon(line) == SubSeq(line, IndexOf(line, ":") + 1, Len(line))

\* the value of the last line that starts with prefix, NullText without one
RECURSIVE LastPrefixed(_, _)
LastPrefixed(lines, prefix) ==
    IF lines = <<>> THEN NullText
    ELSE LET line == lines[Len(lines)]
         IN  IF StartsWith(Lower(line), prefix) THEN Strip(AfterColon(line))
             ELSE LastPrefixed(SubSeq(lines, 1, Len(lines) - 1), prefix)

\* the value of the last "key: value" line with that key, "" without one
RECURSIVE LastKeyed(_, _)
LastKeyed(lines, key) ==
    IF lines = <<>> THEN <<>>
    ELSE LET line == Strip(lines[Len(lines)])
         IN  IF IndexOf(line, ":") # 0 /\ Lower(Strip(BeforeColon(line))) = key
             THEN Strip(AfterColon(line))
             ELSE LastKeyed(SubSeq(lines, 1, Len(lines) - 1), key)

\* dict access of the JSON payload
EmptyPayload == [k \in {} |-> NoEvent]
Put(p, k, v) == [x \in DOMAIN p \cup {k} |-> IF x = k THEN v ELSE p[x]]
Get(p, k, default) == IF k \in DOMAIN p THEN p[k] ELSE default

(* ------------------------------- state -------------------------------- *)
VARIABLES
    events,         \* table events: rows [event_id, event_name, admin_id]
    event_content,  \* table event_content: one row per event
    participants,   \* table participants: rows keyed (event_id, telegram_id)
    photos,         \* table photos
    questions,      \* table anonymous_questions
    feedback,       \* table feedback: rows keyed (event_id, telegram_id)
    alerts,         \* table alerts
    user_state,     \* table user_state: rows [telegram_id, state, payload]
    user_context,   \* table user_context: rows [telegram_id, current_event_id]
    seq,            \* AUTOINCREMENT counters and the number of event ids drawn
    now,            \* wall clock, minutes
    up,             \* the process is running
    restarts,       \* process starts after the first
    jobs,           \* JobQueue: armed run_once jobs [alert_id, event_id, run_at]
    running,        \* job_send_alert calls in progress
    reminders,      \* every reminder send call so far, in order
    started,        \* the alerts whose job_send_alert has been entered so far
    out,            \* the outbound calls of the last handler call
    handled         \* the last update: its kind, its user, the state it found

store == <<events, event_content, participants, photos, questions, feedback, alerts>>
session == <<user_state, user_context>>
runtime == <<now, up, restarts, jobs, running, reminders, started>>
vars == <<events, event_content, participants, photos, questions, feedback, alerts,
          user_state, user_context, seq, now, up, restarts, jobs, running, reminders,
          started, out,
          handled>>

(* ------------------------------ Database ------------------------------ *)
\* Each method is a function from table contents to table contents.  Every
\* connection runs PRAGMA foreign_keys=ON, so a child row needs its event and
\* goes with it (ON DELETE CASCADE).

create_event(ev, event_id, admin_id, event_name) ==
    ev \cup {[event_id |-> event_id, event_name |-> event_name, admin_id |-> admin_id]}

EmptyContent(event_id) ==
    [event_id |-> event_id, agenda |-> NullText, wifi_ssid |-> NullText,
     wifi_password |-> NullText, organizer_name |-> NullText,
     organizer_phone |-> NullText, organizer_email |-> NullText,
     organizer_telegram |-> NullText, event_time |-> NullTime,
     event_location |-> NullText, loc_lat |-> NullNum, loc_lon |-> NullNum]

create_event_content(ec, event_id) ==
    IF \E r \in ec : r.event_id = event_id THEN ec ELSE ec \cup {EmptyContent(event_id)}

delete_event(ev, event_id) == {r \in ev : r.event_id # event_id}

on_delete_cascade_keep(child, ev) == child

on_delete_cascade(child, ev) == {r \in child : \E p \in ev : p.event_id = r.event_id}

event_exists(ev, event_id) == \E r \in ev : r.event_id = event_id

get_event(ev, event_id) == CHOOSE r \in ev : r.event_id = event_id

is_admin(ev, event_id, user_id) ==
    \E r \in ev : r.event_id = event_id /\ r.admin_id = user_id

get_event_content(ec, event_id) ==
    IF \E r \in ec : r.event_id = event_id
    THEN CHOOSE r \in ec : r.event_id = event_id
    ELSE EmptyContent(event_id)

UpdateContent(ec, event_id, changes) ==
    {IF r.event_id = event_id
     THEN [k \in DOMAIN r |-> IF k \in DOMAIN changes THEN changes[k] ELSE r[k]]
     ELSE r : r \in ec}

set_agenda(ec, event_id, agenda) == UpdateContent(ec, event_id, [agenda |-> agenda])

set_wifi(ec, event_id, ssid, password) ==
    UpdateContent(ec, event_id, [wifi_ssid |-> ssid, wifi_password |-> password])

set_organizer_info(ec, event_id, name, phone, email, tg) ==
    UpdateContent(ec, event_id, [organizer_name |-> name, organizer_phone |-> phone,
                                 organizer_email |-> email, organizer_telegram |-> tg])

set_time(ec, event_id, event_time_iso) ==
    UpdateContent(ec, event_id, [event_time |-> event_time_iso])

set_location(ec, event_id, location) ==
    UpdateContent(ec, event_id, [event_location |-> location])

set_map_pin(ec, event_id, lat, lon) ==
    UpdateContent(ec, event_id, [loc_lat |-> Num(lat), loc_lon |-> Num(lon)])

clear_map_pin(ec, event_id) ==
    UpdateContent(ec, event_id, [loc_lat |-> NullNum, loc_lon |-> NullNum])

ensure_participant_stub_named(ps, event_id, telegram_id) ==
    IF \E r \in ps : r.event_id = event_id /\ r.telegram_id = telegram_id
    THEN ps
    ELSE ps \cup {[event_id |-> event_id, telegram_id |-> telegram_id,
                   full_name |-> <<"A", "l">>, phone_number |-> NullText,
                   company_name |-> NullText]}

\* INSERT OR IGNORE of the stub; the profile columns (username, first_name,
\* last_name) that the following UPDATE refreshes are not part of the model.
ensure_participant_stub(ps, event_id, telegram_id) ==
    IF \E r \in ps : r.event_id = event_id /\ r.telegram_id = telegram_id
    THEN ps
    ELSE ps \cup {[event_id |-> event_id, telegram_id |-> telegram_id,
                   full_name |-> NullText, phone_number |-> NullText,
                   company_name |-> NullText]}

has_full_registration(ps, event_id, telegram_id) ==
    \E r \in ps :
        /\ r.event_id = event_id /\ r.telegram_id = telegram_id
        /\ Strip(OrEmpty(r.full_name)) # <<>>
        /\ Strip(OrEmpty(r.phone_number)) # <<>>
        /\ Strip(OrEmpty(r.company_name)) # <<>>

set_registration_info(ps, event_id, telegram_id, full_name, phone, company) ==
    {IF r.event_id = event_id /\ r.telegram_id = telegram_id
     THEN [r EXCEPT !.full_name = Strip(full_name), !.phone_number = norm_phone(phone),
                    !.company_name = Strip(company)]
     ELSE r : r \in ps}

leave_event(ps, event_id, telegram_id) ==
    {r \in ps : ~(r.event_id = event_id /\ r.telegram_id = telegram_id)}

get_participant_telegram_ids(ps, event_id) ==
    {r.telegram_id : r \in {x \in ps : x.event_id = event_id}}

add_photo(ph, id, event_id, file_id, caption) ==
    ph \cup {[id |-> id, event_id |-> event_id, file_id |-> file_id, caption |-> caption]}

add_question(qs, id, event_id, sender_id, text, created_at) ==
    qs \cup {[id |-> id, event_id |-> event_id, sender_telegram_id |-> sender_id,
              question_text |-> text, created_at |-> created_at, status |-> "new"]}

\* the same query ordered by the sender
list_questions_by_sender(qs, event_id) ==
    LET rows == {r \in qs : r.event_id = event_id}
        n == Cardinality(rows)
    IN  {[i \in 1..n |-> [id |-> o[i].id, text |-> o[i].question_text,
                         created_at |-> o[i].created_at, status |-> o[i].status]] :
            o \in {x \in [1..n -> rows] :
                      /\ \A i, j \in 1..n : i # j => x[i] # x[j]
                      /\ \A i, j \in 1..n :
                            i < j => x[i].sender_telegram_id >= x[j].sender_telegram_id}}

\* SELECT id, question_text, created_at, status ... ORDER BY created_at DESC:
\* the results the query may give; rows of the same second come in an order
\* SQL leaves open.  The limit of 30 is above the number of questions here.
list_questions(qs, event_id) ==
    LET rows == {r \in qs : r.event_id = event_id}
        n == Cardinality(rows)
    IN  {[i \in 1..n |-> [id |-> o[i].id, text |-> o[i].question_text,
                         created_at |-> o[i].created_at, status |-> o[i].status]] :
            o \in {x \in [1..n -> rows] :
                      /\ \A i, j \in 1..n : i # j => x[i] # x[j]
                      /\ \A i, j \in 1..n : i < j => x[i].created_at >= x[j].created_at}}

\* ON CONFLICT(event_id, telegram_id) DO UPDATE: the rating is replaced, the
\* comment only by a value that is not NULL (COALESCE).
set_feedback(fb, event_id, telegram_id, rating, comment) ==
    IF \E r \in fb : r.event_id = event_id /\ r.telegram_id = telegram_id
    THEN {IF r.event_id = event_id /\ r.telegram_id = telegram_id
          THEN [r EXCEPT !.rating = rating,
                         !.comment = IF comment # NullText THEN comment ELSE r.comment]
          ELSE r : r \in fb}
    ELSE fb \cup {[event_id |-> event_id, telegram_id |-> telegram_id,
                   rating |-> rating, comment |-> comment]}

set_user_state_stacking(us, telegram_id, state, payload) ==
    IF state = "None"
    THEN {r \in us : r.telegram_id # telegram_id}
    ELSE us \cup {[telegram_id |-> telegram_id, state |-> state, payload |-> payload]}

\* state None deletes the row; otherwise ON CONFLICT(telegram_id) DO UPDATE.
set_user_state(us, telegram_id, state, payload) ==
    IF state = "None"
    THEN {r \in us : r.telegram_id # telegram_id}
    ELSE {r \in us : r.telegram_id # telegram_id}
            \cup {[telegram_id |-> telegram_id, state |-> state, payload |-> payload]}

get_user_state(us, telegram_id) ==
    IF \E r \in us : r.telegram_id = telegram_id
    THEN LET row == CHOOSE r \in us : r.telegram_id = telegram_id
         IN  [state |-> row.state, payload |-> row.payload]
    ELSE [state |-> "None", payload |-> EmptyPayload]

clear_user_state_keep(us, telegram_id) == us

clear_user_state(us, telegram_id) == set_user_state(us, telegram_id, "None", EmptyPayload)

\* set_current_event whose DELETE has no WHERE clause
set_current_event_unkeyed(uc, telegram_id, event_id) ==
    IF event_id = NoEvent
    THEN {}
    ELSE {r \in uc : r.telegram_id # telegram_id}
            \cup {[telegram_id |-> telegram_id, current_event_id |-> event_id]}

set_current_event(uc, telegram_id, event_id) ==
    IF event_id = NoEvent
    THEN {r \in uc : r.telegram_id # telegram_id}
    ELSE {r \in uc : r.telegram_id # telegram_id}
            \cup {[telegram_id |-> telegram_id, current_event_id |-> event_id]}

get_current_event(uc, telegram_id) ==
    IF \E r \in uc : r.telegram_id = telegram_id
    THEN (CHOOSE r \in uc : r.telegram_id = telegram_id).current_event_id
    ELSE NoEvent

add_alert(al, id, event_id, run_at_iso, minutes_before, created_by) ==
    al \cup {[id |-> id, event_id |-> event_id, run_at_iso |-> run_at_iso,
              minutes_before |-> minutes_before, created_by |-> created_by,
              status |-> "scheduled"]}

list_future_alerts(al) == {r \in al : r.status = "scheduled"}

mark_alert_sent(al, alert_id) ==
    {IF r.id = alert_id THEN [r EXCEPT !.status = "sent"] ELSE r : r \in al}

(* ------------------------------ rendering ------------------------------ *)
\* An outbound call: the chat it goes to and the UI text key (or the kind of
\* delivery) it carries.
Reply(to, text) == [to |-> to, text |-> text]
Menu(to, event_id) == [to |-> to, text |-> "entered_event", ev |-> event_id]

StateOf(u) == get_user_state(user_state, u).state
PayloadOf(u) == get_user_state(user_state, u).payload
CurrentOf(u) == get_current_event(user_context, u)

\* show_event_menu: a missing event renders event_not_found and writes
\* nothing; otherwise the menu becomes the user's current event.
show_event_menu_ctx(uc, ev, u, event_id) ==
    IF event_exists(ev, event_id) THEN set_current_event(uc, u, event_id) ELSE uc

show_event_menu_out(ev, u, event_id) ==
    IF event_exists(ev, event_id) THEN <<Menu(u, event_id)>>
    ELSE <<Reply(u, "event_not_found")>>

RenderOnly(u, text) ==
    /\ out' = <<Reply(u, text)>>
    /\ UNCHANGED <<store, session, seq, runtime>>

(* ------------------------------ commands ------------------------------- *)
\* /start <event_id>
cmd_start(u, event_id) ==
    /\ up
    /\ IF ~event_exists(events, event_id)
       THEN RenderOnly(u, "invalid_event_link")
       ELSE LET ps == ensure_participant_stub(participants, event_id, u)
                uc == set_current_event(user_context, u, event_id)
            IN  /\ participants' = ps
                /\ IF ~is_admin(events, event_id, u) /\ ~has_full_registration(ps, event_id, u)
                   THEN /\ user_state' = set_user_state(user_state, u, "reg_full_name",
                                              [event_id |-> event_id, src |-> "hub_joined"])
                        /\ user_context' = uc
                        /\ out' = <<Reply(u, "reg_full_name_prompt")>>
                   ELSE /\ user_state' = user_state
                        /\ user_context' = show_event_menu_ctx(uc, events, u, event_id)
                        /\ out' = show_event_menu_out(events, u, event_id)
                /\ UNCHANGED <<events, event_content, photos, questions, feedback, alerts,
                               seq, runtime>>

\* /start without an argument
cmd_start_plain(u) ==
    /\ up
    /\ user_state' = clear_user_state(user_state, u)
    /\ out' = <<Reply(u, "welcome")>>
    /\ UNCHANGED <<store, user_context, seq, runtime>>

cmd_my_events(u) ==
    /\ up
    /\ user_state' = clear_user_state(user_state, u)
    /\ out' = <<Reply(u, "my_events_title")>>
    /\ UNCHANGED <<store, user_context, seq, runtime>>

cmd_help(u) == up /\ RenderOnly(u, "help")

cmd_cancel(u) ==
    /\ up
    /\ user_state' = clear_user_state(user_state, u)
    /\ out' = <<Reply(u, "cancelled")>>
    /\ UNCHANGED <<store, user_context, seq, runtime>>

(* --------------------------- callback router --------------------------- *)
cb_hub_none(u) == up /\ RenderOnly(u, "my_events_title")

cb_hub_admin(u) ==
    /\ up
    /\ user_state' = clear_user_state(user_state, u)
    /\ out' = <<Reply(u, "events_you_organize")>>
    /\ UNCHANGED <<store, user_context, seq, runtime>>

cb_hub_joined(u) ==
    /\ up
    /\ user_state' = clear_user_state(user_state, u)
    /\ out' = <<Reply(u, "events_you_joined")>>
    /\ UNCHANGED <<store, user_context, seq, runtime>>

cb_event_create(u) ==
    /\ up
    /\ user_state' = set_user_state(user_state, u, "create_event_name", [src |-> "hub:none"])
    /\ out' = <<Reply(u, "create_event_prompt")>>
    /\ UNCHANGED <<store, user_context, seq, runtime>>

\* event:open:<event_id>:<src>
cb_event_open(u, event_id, src) ==
    /\ up
    /\ IF ~event_exists(events, event_id)
       THEN RenderOnly(u, "event_not_found")
       ELSE LET ps == ensure_participant_stub(participants, event_id, u)
                uc == set_current_event(user_context, u, event_id)
            IN  /\ participants' = ps
                /\ IF ~is_admin(events, event_id, u) /\ ~has_full_registration(ps, event_id, u)
                   THEN /\ user_state' = set_user_state(user_state, u, "reg_full_name",
                                              [event_id |-> event_id, src |-> src])
                        /\ user_context' = uc
                        /\ out' = <<Reply(u, "reg_full_name_prompt")>>
                   ELSE /\ user_state' = user_state
                        /\ user_context' = show_event_menu_ctx(uc, events, u, event_id)
                        /\ out' = show_event_menu_out(events, u, event_id)
                /\ UNCHANGED <<events, event_content, photos, questions, feedback, alerts,
                               seq, runtime>>

\* event:invite:<event_id>:<back>
cb_event_invite(u, event_id) ==
    /\ up
    /\ RenderOnly(u, IF is_admin(events, event_id, u) THEN "invite_title"
                     ELSE "only_organizer_invite")

cb_event_del_confirm_deleting(u, event_id) ==
    /\ up
    /\ IF ~is_admin(events, event_id, u)
       THEN RenderOnly(u, "not_allowed")
       ELSE LET ev == delete_event(events, event_id)
            IN  /\ events' = ev
                /\ event_content' = on_delete_cascade(event_content, ev)
                /\ participants' = on_delete_cascade(participants, ev)
                /\ photos' = on_delete_cascade(photos, ev)
                /\ questions' = on_delete_cascade(questions, ev)
                /\ feedback' = on_delete_cascade(feedback, ev)
                /\ alerts' = on_delete_cascade(alerts, ev)
                /\ out' = <<Reply(u, "delete_confirm")>>
                /\ UNCHANGED <<session, seq, runtime>>

\* event:del_confirm:<event_id>:<back>
cb_event_del_confirm(u, event_id) ==
    /\ up
    /\ RenderOnly(u, IF is_admin(events, event_id, u) THEN "delete_confirm" ELSE "not_allowed")

\* The rows that go with an event: delete_event and the cascade of the store.
DeleteEventRows(event_id) ==
    LET ev == delete_event(events, event_id)
    IN  /\ events' = ev
        /\ event_content' = on_delete_cascade(event_content, ev)
        /\ participants' = on_delete_cascade(participants, ev)
        /\ photos' = on_delete_cascade(photos, ev)
        /\ questions' = on_delete_cascade(questions, ev)
        /\ feedback' = on_delete_cascade(feedback, ev)
        /\ alerts' = on_delete_cascade(alerts, ev)

cb_event_delete_by_anyone(u, event_id) ==
    /\ up
    /\ DeleteEventRows(event_id)
    /\ user_context' = IF get_current_event(user_context, u) = event_id
                       THEN set_current_event(user_context, u, NoEvent)
                       ELSE user_context
    /\ out' = <<Reply(u, "event_deleted")>>
    /\ UNCHANGED <<user_state, seq, runtime>>

\* event:delete:<event_id>:<back>
cb_event_delete(u, event_id) ==
    /\ up
    /\ IF ~is_admin(events, event_id, u)
       THEN RenderOnly(u, "not_allowed")
       ELSE /\ DeleteEventRows(event_id)
            /\ user_context' = IF get_current_event(user_context, u) = event_id
                               THEN set_current_event(user_context, u, NoEvent)
                               ELSE user_context
            /\ out' = <<Reply(u, "event_deleted")>>
            /\ UNCHANGED <<user_state, seq, runtime>>

\* event:leave_confirm:<event_id>:<back>
cb_event_leave_confirm(u, event_id) ==
    /\ up
    /\ RenderOnly(u, IF is_admin(events, event_id, u) THEN "organizer_cant_leave"
                     ELSE "leave_confirm")

\* event:leave:<event_id>:<back>
cb_event_leave(u, event_id) ==
    /\ up
    /\ IF is_admin(events, event_id, u)
       THEN RenderOnly(u, "organizer_cant_leave")
       ELSE /\ participants' = leave_event(participants, event_id, u)
            /\ user_context' = IF get_current_event(user_context, u) = event_id
                               THEN set_current_event(user_context, u, NoEvent)
                               ELSE user_context
            /\ out' = <<Reply(u, "left_event")>>
            /\ UNCHANGED <<events, event_content, photos, questions, feedback, alerts,
                           user_state, seq, runtime>>

\* The role the router derives for every other token: the current event must
\* exist, and the organizer check is made against the events table.
RoleOf(u) ==
    LET current_event_id == get_current_event(user_context, u)
    IN  IF current_event_id = NoEvent \/ ~event_exists(events, current_event_id) THEN "none"
        ELSE IF is_admin(events, current_event_id, u) THEN "admin"
        ELSE "participant"

\* any admin:* or p:* token without a current event
cb_choose_event_first(u) ==
    /\ up
    /\ RoleOf(u) = "none"
    /\ RenderOnly(u, "choose_event_first")

\* a p:* token of an organizer, an admin:* token of a participant
cb_role_mismatch(u) ==
    /\ up
    /\ RoleOf(u) # "none"
    /\ RenderOnly(u, "unknown_action")

\* event:open with fewer than four parts: the router returns at once, after
\* q.answer() and without a message
cb_event_open_short(u) ==
    /\ up
    /\ out' = <<>>
    /\ UNCHANGED <<store, session, seq, runtime>>

\* event:invite, event:del_confirm, event:delete, event:leave_confirm or
\* event:leave with a number of parts other than four: the unpacking of
\* data.split(":") raises ValueError and the handler ends there
cb_event_split_error(u) ==
    /\ up
    /\ out' = <<[to |-> NoUser, text |-> "ValueError"]>>
    /\ UNCHANGED <<store, session, seq, runtime>>

\* admin:alert_set:<x> of an organizer, p:rate:<x> of a participant, x not a
\* number: int() raises ValueError before anything is written
cb_int_error(u) ==
    /\ up
    /\ RoleOf(u) # "none"
    /\ out' = <<[to |-> NoUser, text |-> "ValueError"]>>
    /\ UNCHANGED <<store, session, seq, runtime>>

(* ---------------------------- admin actions ---------------------------- *)
\* handle_admin_action runs for the user's current event, which exists and
\* is organized by the user (RoleOf).
AdminViewTexts ==
    [t \in {"admin:manage", "admin:view", "admin:agenda", "admin:wifi", "admin:org",
            "admin:time", "admin:location", "admin:map_pin", "admin:agenda_view",
            "admin:wifi_view", "admin:org_view", "admin:time_view",
            "admin:location_view", "admin:map_pin_view", "admin:members",
            "admin:alert", "admin:photos", "admin:photos_view",
            "admin:feedback", "admin:invite", "admin:delete"} |->
        CASE t = "admin:manage" -> "manage_title"
          [] t = "admin:view" -> "view_title"
          [] t = "admin:agenda" -> "agenda_title"
          [] t = "admin:wifi" -> "wifi_title"
          [] t = "admin:org" -> "org_title"
          [] t = "admin:time" -> "time_title"
          [] t = "admin:location" -> "location_title"
          [] t = "admin:map_pin" -> "map_pin_title"
          [] t = "admin:agenda_view" -> "current_agenda"
          [] t = "admin:wifi_view" -> "current_wifi"
          [] t = "admin:org_view" -> "current_org"
          [] t = "admin:time_view" -> "current_time"
          [] t = "admin:location_view" -> "current_location"
          [] t = "admin:map_pin_view" -> "current_map_pin"
          [] t = "admin:members" -> "members_title"
          [] t = "admin:alert" -> "alert_menu"
          [] t = "admin:photos" -> "photos_menu_title"
          [] t = "admin:photos_view" -> "sent_n_photos"
          [] t = "admin:feedback" -> "feedback_title"
          [] t = "admin:invite" -> "invite_title"
          [] t = "admin:delete" -> "delete_confirm"]

\* the tokens of handle_admin_action that only render
admin_view(u, data) ==
    /\ up
    /\ RoleOf(u) = "admin"
    /\ data \in DOMAIN AdminViewTexts
    /\ RenderOnly(u, AdminViewTexts[data])

\* the lines of the questions view: the first 19 characters of created_at
\* (the whole stamp here, the clock counts minutes) and the escaped text
questions_value(qs) ==
    [i \in 1..Len(qs) |-> [ts |-> qs[i].created_at, text |-> html_escape(qs[i].text)]]

\* admin:questions
admin_questions(u) ==
    LET event_id == CurrentOf(u)
    IN
    /\ up
    /\ RoleOf(u) = "admin"
    /\ \E qs \in list_questions(questions, event_id) :
          out' = IF qs = <<>> THEN <<Reply(u, "questions_none")>>
                 ELSE <<[to |-> u, text |-> "questions_title",
                         title |-> html_escape(get_event(events, event_id).event_name),
                         value |-> questions_value(qs)]>>
    /\ UNCHANGED <<store, session, seq, runtime>>

AdminEditStates ==
    [t \in {"admin:agenda_edit", "admin:wifi_edit", "admin:org_edit", "admin:time_edit",
            "admin:location_edit", "admin:map_pin_edit", "admin:notify",
            "admin:photos_upload"} |->
        CASE t = "admin:agenda_edit" -> "admin_edit_agenda"
          [] t = "admin:wifi_edit" -> "admin_set_wifi"
          [] t = "admin:org_edit" -> "admin_set_org"
          [] t = "admin:time_edit" -> "admin_set_time"
          [] t = "admin:location_edit" -> "admin_set_location"
          [] t = "admin:map_pin_edit" -> "admin_set_map_pin"
          [] t = "admin:notify" -> "admin_notify_text"
          [] t = "admin:photos_upload" -> "admin_upload_photos"]

AdminEditPrompts ==
    [t \in DOMAIN AdminEditStates |->
        CASE t = "admin:agenda_edit" -> "agenda_set_prompt"
          [] t = "admin:wifi_edit" -> "wifi_set_prompt"
          [] t = "admin:org_edit" -> "org_set_prompt"
          [] t = "admin:time_edit" -> "time_set_prompt"
          [] t = "admin:location_edit" -> "location_set_prompt"
          [] t = "admin:map_pin_edit" -> "map_pin_set_prompt"
          [] t = "admin:notify" -> "push_prompt"
          [] t = "admin:photos_upload" -> "upload_mode_title"]

\* admin:<field>_edit, admin:notify, admin:photos_upload: the flow starts
admin_edit(u, data) ==
    /\ up
    /\ RoleOf(u) = "admin"
    /\ data \in DOMAIN AdminEditStates
    /\ user_state' = set_user_state(user_state, u, AdminEditStates[data],
                                    [event_id |-> CurrentOf(u)])
    /\ out' = <<Reply(u, AdminEditPrompts[data])>>
    /\ UNCHANGED <<store, user_context, seq, runtime>>

admin_photos_done(u) ==
    /\ up
    /\ RoleOf(u) = "admin"
    /\ user_state' = clear_user_state(user_state, u)
    /\ out' = <<Reply(u, "upload_mode_closed")>>
    /\ UNCHANGED <<store, user_context, seq, runtime>>

\* JobQueue.run_once: one job per call, kept in memory only
schedule_alert_job(jq, alert_id, event_id, run_at) ==
    jq \cup {[alert_id |-> alert_id, event_id |-> event_id, run_at |-> run_at]}

\* admin:alert_set:<minutes> without the comparison of the fire time with now
admin_alert_set_any_time(u, minutes) ==
    /\ up
    /\ RoleOf(u) = "admin"
    /\ LET event_id == CurrentOf(u)
           et == get_event_content(event_content, event_id).event_time
       IN  IF ~et.set
           THEN RenderOnly(u, "event_time_not_set")
           ELSE LET run_at == et.min - minutes IN
                /\ seq.alert < MaxAlerts
                /\ alerts' = add_alert(alerts, seq.alert + 1, event_id, run_at, minutes, u)
                /\ seq' = [seq EXCEPT !.alert = @ + 1]
                /\ jobs' = schedule_alert_job(jobs, seq.alert + 1, event_id, run_at)
                /\ out' = <<Reply(u, "reminder_scheduled")>>
                /\ UNCHANGED <<events, event_content, participants, photos, questions,
                               feedback, session, now, up, restarts, running, reminders,
                               started>>

\* admin:alert_set:<minutes>
admin_alert_set(u, minutes) ==
    /\ up
    /\ RoleOf(u) = "admin"
    /\ LET event_id == CurrentOf(u)
           et == get_event_content(event_content, event_id).event_time
       IN  IF ~et.set
           THEN RenderOnly(u, "event_time_not_set")
           ELSE LET run_at == et.min - minutes IN
                IF run_at <= now
                THEN RenderOnly(u, "reminder_past")
                ELSE /\ seq.alert < MaxAlerts
                     /\ alerts' = add_alert(alerts, seq.alert + 1, event_id, run_at, minutes, u)
                     /\ seq' = [seq EXCEPT !.alert = @ + 1]
                     /\ jobs' = schedule_alert_job(jobs, seq.alert + 1, event_id, run_at)
                     /\ out' = <<Reply(u, "reminder_scheduled")>>
                     /\ UNCHANGED <<events, event_content, participants, photos, questions,
                                    feedback, session, now, up, restarts, running, reminders,
                               started>>

\* admin:alert_set:<minutes> when JobQueue.run_once raises: schedule_alert_job
\* logs the failure and returns, the alert row stays and no job is armed
admin_alert_set_unarmed(u, minutes) ==
    /\ up
    /\ RoleOf(u) = "admin"
    /\ LET event_id == CurrentOf(u)
           et == get_event_content(event_content, event_id).event_time
           run_at == et.min - minutes
       IN  /\ et.set
           /\ run_at > now
           /\ seq.alert < MaxAlerts
           /\ alerts' = add_alert(alerts, seq.alert + 1, event_id, run_at, minutes, u)
           /\ seq' = [seq EXCEPT !.alert = @ + 1]
           /\ out' = <<Reply(u, "reminder_scheduled")>>
           /\ UNCHANGED <<events, event_content, participants, photos, questions,
                          feedback, session, runtime>>

admin_delete_yes(u) ==
    /\ up
    /\ RoleOf(u) = "admin"
    /\ DeleteEventRows(CurrentOf(u))
    /\ user_context' = set_current_event(user_context, u, NoEvent)
    /\ out' = <<Reply(u, "event_deleted")>>
    /\ UNCHANGED <<user_state, seq, runtime>>

admin_back_to_menu(u) ==
    /\ up
    /\ RoleOf(u) = "admin"
    /\ user_context' = show_event_menu_ctx(user_context, events, u, CurrentOf(u))
    /\ out' = show_event_menu_out(events, u, CurrentOf(u))
    /\ UNCHANGED <<store, user_state, seq, runtime>>

(* ------------------------- participant actions ------------------------- *)
\* handle_participant_action runs for the user's current event, which exists
\* and is not organized by the user (RoleOf).
ParticipantViewTexts ==
    [t \in {"p:info", "p:share", "p:feedback", "p:leave"} |->
        CASE t = "p:info" -> "event_info"
          [] t = "p:share" -> "invite_title"
          [] t = "p:feedback" -> "rating_choose"
          [] t = "p:leave" -> "leave_confirm"]

p_view(u, data) ==
    /\ up
    /\ RoleOf(u) = "participant"
    /\ data \in DOMAIN ParticipantViewTexts
    /\ out' = <<[to |-> u, text |-> ParticipantViewTexts[data], ev |-> CurrentOf(u)]>>
    /\ UNCHANGED <<store, session, seq, runtime>>

p_ask(u) ==
    /\ up
    /\ RoleOf(u) = "participant"
    /\ user_state' = set_user_state(user_state, u, "p_ask_question", [event_id |-> CurrentOf(u)])
    /\ out' = <<Reply(u, "ask_question_prompt")>>
    /\ UNCHANGED <<store, user_context, seq, runtime>>

\* p:rate:<rating>
p_rate(u, rating) ==
    /\ up
    /\ RoleOf(u) = "participant"
    /\ feedback' = set_feedback(feedback, CurrentOf(u), u, rating, NullText)
    /\ user_state' = set_user_state(user_state, u, "p_feedback_comment",
                                    [event_id |-> CurrentOf(u), rating |-> rating])
    /\ out' = <<Reply(u, "rating_saved_optional_comment")>>
    /\ UNCHANGED <<events, event_content, participants, photos, questions, alerts,
                   user_context, seq, runtime>>

p_feedback_skip(u) ==
    /\ up
    /\ RoleOf(u) = "participant"
    /\ user_state' = clear_user_state(user_state, u)
    /\ out' = <<Reply(u, "feedback_saved")>>
    /\ UNCHANGED <<store, user_context, seq, runtime>>

p_leave_yes(u) ==
    /\ up
    /\ RoleOf(u) = "participant"
    /\ participants' = leave_event(participants, CurrentOf(u), u)
    /\ user_context' = set_current_event(user_context, u, NoEvent)
    /\ out' = <<Reply(u, "left_event")>>
    /\ UNCHANGED <<events, event_content, photos, questions, feedback, alerts,
                   user_state, seq, runtime>>

p_back_to_menu(u) ==
    /\ up
    /\ RoleOf(u) = "participant"
    /\ user_context' = show_event_menu_ctx(user_context, events, u, CurrentOf(u))
    /\ out' = show_event_menu_out(events, u, CurrentOf(u))
    /\ UNCHANGED <<store, user_state, seq, runtime>>

(* ------------------------------ broadcast ------------------------------ *)
RECURSIVE InOrder(_)
InOrder(S) ==
    IF S = {} THEN <<>>
    ELSE LET m == CHOOSE x \in S : \A y \in S : x <= y
         IN  <<m>> \o InOrder(S \ {m})

Recipients_all(ev, ps, event_id) ==
    {pid \in get_participant_telegram_ids(ps, event_id) : pid # NoUser}

\* recipients taken from the completed registrations only
Recipients_registered(ev, ps, event_id) ==
    {pid \in get_participant_telegram_ids(ps, event_id) :
        /\ pid # NoUser /\ pid # get_event(ev, event_id).admin_id
        /\ has_full_registration(ps, event_id, pid)}

\* recipient_ids: the participants' ids without the organizer's
Recipients(ev, ps, event_id) ==
    {pid \in get_participant_telegram_ids(ps, event_id) :
        pid # NoUser /\ pid # get_event(ev, event_id).admin_id}

send_broadcast_stopping(ev, ps, u, event_id, message_text, photo_file_id, failed) ==
    IF ~event_exists(ev, event_id) THEN <<Reply(u, "event_not_found")>>
    ELSE LET all == Recipients(ev, ps, event_id)
             recipient_ids == {p \in all : \A f \in all \cap failed : p <= f}
             order == InOrder(recipient_ids)
         IN  IF all = {} THEN <<Reply(u, "broadcast_none")>>
             ELSE <<Reply(u, "broadcast_sending")>>
                  \o [i \in 1..Len(order) |->
                        [to |-> order[i], text |-> "broadcast", ev |-> event_id,
                         body |-> Strip(message_text), photo |-> photo_file_id,
                         ok |-> order[i] \notin failed]]
                  \o <<[to |-> u, text |-> "broadcast_done",
                        success |-> Cardinality(recipient_ids \ failed),
                        fail |-> Cardinality(recipient_ids \cap failed)]>>

\* send_broadcast: the calls it makes, `failed` being the recipients whose
\* delivery raises.  The report goes to the sender's chat.
send_broadcast(ev, ps, u, event_id, message_text, photo_file_id, failed) ==
    IF ~event_exists(ev, event_id) THEN <<Reply(u, "event_not_found")>>
    ELSE LET recipient_ids == Recipients(ev, ps, event_id)
             order == InOrder(recipient_ids)
         IN  IF recipient_ids = {} THEN <<Reply(u, "broadcast_none")>>
             ELSE <<Reply(u, "broadcast_sending")>>
                  \o [i \in 1..Len(order) |->
                        [to |-> order[i], text |-> "broadcast", ev |-> event_id,
                         body |-> Strip(message_text), photo |-> photo_file_id,
                         ok |-> order[i] \notin failed]]
                  \o <<[to |-> u, text |-> "broadcast_done",
                        success |-> Cardinality(recipient_ids \ failed),
                        fail |-> Cardinality(recipient_ids \cap failed)]>>

FailSets(ev, ps, event_id) ==
    IF event_exists(ev, event_id) THEN SUBSET Recipients(ev, ps, event_id) ELSE {{}}

(* ---------------------------- text messages ---------------------------- *)
\* "/" + cmd("cancel") or the word cancel, compared in lower case
IsCancelText(text) == Lower(text) \in {Lower(T_slash_cancel), T_cancel}

\* the current event, whatever the payload names
PayloadEvent_current(u) == CurrentOf(u)

PayloadEvent(u) ==
    LET e == Get(PayloadOf(u), "event_id", NoEvent)
    IN  IF e # NoEvent THEN e ELSE CurrentOf(u)

on_text_cancel(u, raw) ==
    /\ up
    /\ IsCancelText(Strip(raw))
    /\ user_state' = clear_user_state(user_state, u)
    /\ out' = <<Reply(u, "cancelled")>>
    /\ UNCHANGED <<store, user_context, seq, runtime>>

on_text_create_event_name(u, raw) ==
    LET text == Strip(raw) IN
    /\ up
    /\ ~IsCancelText(text)
    /\ StateOf(u) = "create_event_name"
    /\ IF text = <<>>
       THEN RenderOnly(u, "create_event_invalid_name")
       ELSE /\ seq.event < MaxEvents
            /\ LET event_id == seq.event + 1
                   ev == create_event(events, event_id, u, text)
               IN  /\ events' = ev
                   /\ event_content' = create_event_content(event_content, event_id)
                   /\ participants' = ensure_participant_stub(participants, event_id, u)
                   /\ user_context' = show_event_menu_ctx(
                                          set_current_event(user_context, u, event_id),
                                          ev, u, event_id)
                   /\ out' = show_event_menu_out(ev, u, event_id)
            /\ seq' = [seq EXCEPT !.event = @ + 1]
            /\ user_state' = clear_user_state(user_state, u)
            /\ UNCHANGED <<photos, questions, feedback, alerts, runtime>>

on_text_reg_full_name(u, raw) ==
    LET text == Strip(raw)
        payload == PayloadOf(u)
        eid == Get(payload, "event_id", NoEvent)
    IN
    /\ up
    /\ ~IsCancelText(text)
    /\ StateOf(u) = "reg_full_name"
    /\ IF eid = NoEvent \/ ~event_exists(events, eid)
       THEN /\ user_state' = clear_user_state(user_state, u)
            /\ out' = <<Reply(u, "event_not_found")>>
            /\ UNCHANGED <<store, user_context, seq, runtime>>
       ELSE IF Len(text) < 2
       THEN RenderOnly(u, "reg_name_invalid")
       ELSE /\ user_state' = set_user_state(user_state, u, "reg_phone",
                                            Put(payload, "full_name", Strip(text)))
            /\ out' = <<Reply(u, "reg_phone_prompt")>>
            /\ UNCHANGED <<store, user_context, seq, runtime>>

on_text_reg_phone_accepting(u, raw) ==
    LET text == Strip(raw) IN
    /\ up
    /\ ~IsCancelText(text)
    /\ StateOf(u) = "reg_phone"
    /\ user_state' = set_user_state(user_state, u, "reg_company",
                                    Put(PayloadOf(u), "phone_number", text))
    /\ out' = <<Reply(u, "reg_company_prompt")>>
    /\ UNCHANGED <<store, user_context, seq, runtime>>

on_text_reg_phone(u, raw) ==
    LET text == Strip(raw) IN
    /\ up
    /\ ~IsCancelText(text)
    /\ StateOf(u) = "reg_phone"
    /\ RenderOnly(u, "reg_phone_reject")

on_text_reg_company(u, raw) ==
    LET text == Strip(raw)
        payload == PayloadOf(u)
        eid == Get(payload, "event_id", NoEvent)
        company == Strip(text)
    IN
    /\ up
    /\ ~IsCancelText(text)
    /\ StateOf(u) = "reg_company"
    /\ IF Len(company) < 2
       THEN RenderOnly(u, "reg_company_invalid")
       ELSE /\ participants' = set_registration_info(participants, eid, u,
                                    Strip(Get(payload, "full_name", <<>>)),
                                    Get(payload, "phone_number", <<>>), company)
            /\ user_state' = clear_user_state(user_state, u)
            /\ user_context' = show_event_menu_ctx(user_context, events, u, eid)
            /\ out' = <<Reply(u, "reg_saved")>> \o show_event_menu_out(events, u, eid)
            /\ UNCHANGED <<events, event_content, photos, questions, feedback, alerts,
                           seq, runtime>>

\* The tail shared by the admin text flows: the state is cleared, the update
\* is confirmed and the menu of the event is shown.
AdminFlowDone(u, eid, text) ==
    /\ user_state' = clear_user_state(user_state, u)
    /\ user_context' = show_event_menu_ctx(user_context, events, u, eid)
    /\ out' = <<Reply(u, text)>> \o show_event_menu_out(events, u, eid)
    /\ UNCHANGED <<events, participants, photos, questions, feedback, alerts, seq, runtime>>

on_text_admin_edit_agenda(u, raw) ==
    LET text == Strip(raw)
        eid == PayloadEvent(u)
    IN
    /\ up
    /\ ~IsCancelText(text)
    /\ StateOf(u) = "admin_edit_agenda"
    /\ IF eid = NoEvent \/ ~is_admin(events, eid, u)
       THEN /\ user_state' = clear_user_state(user_state, u)
            /\ out' = <<Reply(u, "not_allowed")>>
            /\ UNCHANGED <<store, user_context, seq, runtime>>
       ELSE /\ event_content' = set_agenda(event_content, eid, text)
            /\ AdminFlowDone(u, eid, "agenda_updated")

on_text_admin_set_time(u, raw) ==
    LET text == Strip(raw)
        eid == PayloadEvent(u)
        dt == parse_event_time(text)
    IN
    /\ up
    /\ ~IsCancelText(text)
    /\ StateOf(u) = "admin_set_time"
    /\ IF ~dt.set
       THEN RenderOnly(u, "time_invalid_format")
       ELSE /\ event_content' = set_time(event_content, eid, dt)
            /\ AdminFlowDone(u, eid, "time_updated")

on_text_admin_set_location(u, raw) ==
    LET text == Strip(raw)
        eid == PayloadEvent(u)
        t == Strip(text)
    IN
    /\ up
    /\ ~IsCancelText(text)
    /\ StateOf(u) = "admin_set_location"
    /\ event_content' = set_location(event_content, eid,
                                     IF Lower(t) = T_clear THEN NullText ELSE t)
    /\ AdminFlowDone(u, eid, "location_updated")

on_text_admin_set_map_pin(u, raw) ==
    LET text == Strip(raw)
        eid == PayloadEvent(u)
    IN
    /\ up
    /\ ~IsCancelText(text)
    /\ StateOf(u) = "admin_set_map_pin"
    /\ IF Lower(Strip(text)) = T_clear
       THEN /\ event_content' = clear_map_pin(event_content, eid)
            /\ AdminFlowDone(u, eid, "map_pin_removed")
       ELSE RenderOnly(u, "map_pin_need_location")

on_text_admin_set_wifi_any_password(u, raw) ==
    LET text == Strip(raw)
        eid == PayloadEvent(u)
        ssid == LastPrefixed(SplitLines(text), <<"s", "s", "i", "d", ":">>)
        pwd == LastPrefixed(SplitLines(text), <<"p", "a", "s", "s", "w", "o", "r", "d", ":">>)
    IN
    /\ up
    /\ ~IsCancelText(text)
    /\ StateOf(u) = "admin_set_wifi"
    /\ IF OrEmpty(ssid) = <<>> \/ OrEmpty(pwd) = <<>>
       THEN RenderOnly(u, "wifi_invalid_format")
       ELSE /\ event_content' = set_wifi(event_content, eid, ssid, pwd)
            /\ AdminFlowDone(u, eid, "wifi_updated")

on_text_admin_set_wifi(u, raw) ==
    LET text == Strip(raw)
        eid == PayloadEvent(u)
        ssid == LastPrefixed(SplitLines(text), <<"s", "s", "i", "d", ":">>)
        pwd == LastPrefixed(SplitLines(text), <<"p", "a", "s", "s", "w", "o", "r", "d", ":">>)
    IN
    /\ up
    /\ ~IsCancelText(text)
    /\ StateOf(u) = "admin_set_wifi"
    /\ IF OrEmpty(ssid) = <<>> \/ OrEmpty(pwd) = <<>>
       THEN RenderOnly(u, "wifi_invalid_format")
       ELSE IF Len(pwd) < 8
       THEN RenderOnly(u, "wifi_invalid_password")
       ELSE /\ event_content' = set_wifi(event_content, eid, ssid, pwd)
            /\ AdminFlowDone(u, eid, "wifi_updated")

on_text_admin_set_org(u, raw) ==
    LET text == Strip(raw)
        eid == PayloadEvent(u)
        lines == SplitLines(text)
        name == LastKeyed(lines, <<"n", "a", "m", "e">>)
    IN
    /\ up
    /\ ~IsCancelText(text)
    /\ StateOf(u) = "admin_set_org"
    /\ IF name = <<>>
       THEN RenderOnly(u, "not_allowed")
       ELSE /\ event_content' = set_organizer_info(event_content, eid, name,
                                     LastKeyed(lines, <<"p", "h", "o", "n", "e">>),
                                     LastKeyed(lines, <<"e", "m", "a", "i", "l">>),
                                     LastKeyed(lines, <<"t", "e", "l", "e", "g", "r", "a", "m">>))
            /\ AdminFlowDone(u, eid, "org_updated")

on_text_admin_notify_text(u, raw) ==
    LET text == Strip(raw)
        eid == PayloadEvent(u)
    IN
    /\ up
    /\ ~IsCancelText(text)
    /\ StateOf(u) = "admin_notify_text"
    /\ \E failed \in FailSets(events, participants, eid) :
          out' = send_broadcast(events, participants, u, eid, text, NullText, failed)
                    \o show_event_menu_out(events, u, eid)
    /\ user_state' = clear_user_state(user_state, u)
    /\ user_context' = show_event_menu_ctx(user_context, events, u, eid)
    /\ UNCHANGED <<store, seq, runtime>>

on_text_p_ask_question(u, raw) ==
    LET text == Strip(raw)
        eid == PayloadEvent(u)
    IN
    /\ up
    /\ ~IsCancelText(text)
    /\ StateOf(u) = "p_ask_question"
    /\ IF eid = NoEvent \/ ~event_exists(events, eid)
       THEN /\ user_state' = clear_user_state(user_state, u)
            /\ out' = <<Reply(u, "event_not_found")>>
            /\ UNCHANGED <<store, user_context, seq, runtime>>
       ELSE /\ seq.question < MaxQuestions
            /\ questions' = add_question(questions, seq.question + 1, eid, u, text, now)
            /\ seq' = [seq EXCEPT !.question = @ + 1]
            /\ user_state' = clear_user_state(user_state, u)
            /\ user_context' = show_event_menu_ctx(user_context, events, u, eid)
            /\ out' = <<Reply(u, "question_sent")>> \o show_event_menu_out(events, u, eid)
            /\ UNCHANGED <<events, event_content, participants, photos, feedback, alerts,
                           runtime>>

on_text_p_feedback_comment_unguarded(u, raw) ==
    LET text == Strip(raw)
        eid == PayloadEvent(u)
        rating == Get(PayloadOf(u), "rating", 1)
        comment == Strip(text)
    IN
    /\ up
    /\ ~IsCancelText(text)
    /\ StateOf(u) = "p_feedback_comment"
    /\ IF ~event_exists(events, eid)
       THEN /\ out' = <<[to |-> NoUser, text |-> "IntegrityError"]>>
            /\ UNCHANGED <<store, session, seq, runtime>>
       ELSE /\ feedback' = set_feedback(feedback, eid, u, rating, comment)
            /\ user_state' = clear_user_state(user_state, u)
            /\ user_context' = show_event_menu_ctx(user_context, events, u, eid)
            /\ out' = <<Reply(u, "comment_saved")>> \o show_event_menu_out(events, u, eid)
            /\ UNCHANGED <<events, event_content, participants, photos, questions, alerts,
                           seq, runtime>>

\* set_feedback for an event that is gone violates the foreign key: the
\* INSERT raises IntegrityError, the handler ends there, on_error logs it.
on_text_p_feedback_comment(u, raw) ==
    LET text == Strip(raw)
        eid == PayloadEvent(u)
        rating == Get(PayloadOf(u), "rating", 1)
        comment == Strip(text)
    IN
    /\ up
    /\ ~IsCancelText(text)
    /\ StateOf(u) = "p_feedback_comment"
    /\ IF comment = <<>>
       THEN RenderOnly(u, "comment_empty")
       ELSE IF ~event_exists(events, eid)
       THEN /\ out' = <<[to |-> NoUser, text |-> "IntegrityError"]>>
            /\ UNCHANGED <<store, session, seq, runtime>>
       ELSE /\ feedback' = set_feedback(feedback, eid, u, rating, comment)
            /\ user_state' = clear_user_state(user_state, u)
            /\ user_context' = show_event_menu_ctx(user_context, events, u, eid)
            /\ out' = <<Reply(u, "comment_saved")>> \o show_event_menu_out(events, u, eid)
            /\ UNCHANGED <<events, event_content, participants, photos, questions, alerts,
                           seq, runtime>>

\* the states on_text has a branch for
TextStates ==
    {"create_event_name", "reg_full_name", "reg_phone", "reg_company", "admin_edit_agenda",
     "admin_set_time", "admin_set_location", "admin_set_map_pin", "admin_set_wifi",
     "admin_set_org", "admin_notify_text", "p_ask_question", "p_feedback_comment"}

on_text_other_as_name(u, raw) ==
    /\ up
    /\ ~IsCancelText(Strip(raw))
    /\ StateOf(u) \notin TextStates
    /\ user_state' = set_user_state(user_state, u, "create_event_name", [src |-> "hub:none"])
    /\ out' = <<Reply(u, "use_my_events_to_continue")>>
    /\ UNCHANGED <<store, user_context, seq, runtime>>

\* no flow in progress, or a flow that takes no text
on_text_other(u, raw) ==
    /\ up
    /\ ~IsCancelText(Strip(raw))
    /\ StateOf(u) \notin TextStates
    /\ RenderOnly(u, "use_my_events_to_continue")

(* ------------------- contact, location, photo messages ------------------ *)
\* contact_user_id is NoUser for a contact that carries no user id
on_contact(u, contact_user_id, phone_number) ==
    LET payload == PayloadOf(u)
        phone == norm_phone(phone_number)
    IN
    /\ up
    /\ IF StateOf(u) # "reg_phone"
       THEN /\ out' = <<>>
            /\ UNCHANGED <<store, session, seq, runtime>>
       ELSE IF contact_user_id # NoUser /\ contact_user_id # u
       THEN RenderOnly(u, "share_own_contact")
       ELSE IF phone = NullText
       THEN RenderOnly(u, "phone_read_fail")
       ELSE /\ user_state' = set_user_state(user_state, u, "reg_company",
                                            Put(payload, "phone_number", phone))
            /\ out' = <<Reply(u, "reg_company_prompt")>>
            /\ UNCHANGED <<store, user_context, seq, runtime>>

on_location(u, lat, lon) ==
    LET eid == PayloadEvent(u) IN
    /\ up
    /\ IF StateOf(u) # "admin_set_map_pin"
       THEN /\ out' = <<>>
            /\ UNCHANGED <<store, session, seq, runtime>>
       ELSE IF eid = NoEvent \/ ~is_admin(events, eid, u)
       THEN /\ user_state' = clear_user_state(user_state, u)
            /\ out' = <<>>
            /\ UNCHANGED <<store, user_context, seq, runtime>>
       ELSE /\ event_content' = set_map_pin(event_content, eid, lat, lon)
            /\ AdminFlowDone(u, eid, "map_pin_saved")

on_photo_upload(u, file_id, caption) ==
    LET eid == PayloadEvent(u) IN
    /\ up
    /\ StateOf(u) = "admin_upload_photos"
    /\ IF eid = NoEvent \/ ~is_admin(events, eid, u)
       THEN /\ user_state' = clear_user_state(user_state, u)
            /\ out' = <<Reply(u, "not_allowed")>>
            /\ UNCHANGED <<store, user_context, seq, runtime>>
       ELSE /\ seq.photo < MaxPhotos
            /\ photos' = add_photo(photos, seq.photo + 1, eid, file_id, caption)
            /\ seq' = [seq EXCEPT !.photo = @ + 1]
            /\ out' = <<Reply(u, "photo_saved_send_more")>>
            /\ UNCHANGED <<events, event_content, participants, questions, feedback,
                           alerts, session, runtime>>

on_photo_notify(u, file_id, caption) ==
    LET eid == PayloadEvent(u) IN
    /\ up
    /\ StateOf(u) = "admin_notify_text"
    /\ IF eid = NoEvent \/ ~is_admin(events, eid, u)
       THEN /\ user_state' = clear_user_state(user_state, u)
            /\ out' = <<>>
            /\ UNCHANGED <<store, user_context, seq, runtime>>
       ELSE /\ \E failed \in FailSets(events, participants, eid) :
                  out' = send_broadcast(events, participants, u, eid, OrEmpty(caption),
                                        file_id, failed)
                            \o show_event_menu_out(events, u, eid)
            /\ user_state' = clear_user_state(user_state, u)
            /\ user_context' = show_event_menu_ctx(user_context, events, u, eid)
            /\ UNCHANGED <<store, seq, runtime>>

\* a photo in any other state
on_photo_other(u) ==
    /\ up
    /\ StateOf(u) \notin {"admin_upload_photos", "admin_notify_text"}
    /\ RenderOnly(u, "photo_received_use_photos")

(* --------------------------- alert scheduler --------------------------- *)
display_event_time(et) == IF et.set THEN [set |-> TRUE, min |-> et.min] ELSE NullTime

\* job_send_alert without the test of the event (2253-2255): the lookup of
\* admin_id in a missing row raises
job_send_alert_start_unchecked(j) ==
    /\ up
    /\ j \in jobs
    /\ now >= j.run_at
    /\ jobs' = jobs \ {j}
    /\ started' = started \cup {j.alert_id}
    /\ IF ~event_exists(events, j.event_id)
       THEN /\ out' = <<[to |-> NoUser, text |-> "TypeError"]>>
            /\ alerts' = alerts
            /\ running' = running
       ELSE LET recipient_ids == Recipients(events, participants, j.event_id)
            IN  /\ out' = <<>>
                /\ alerts' = IF recipient_ids = {} THEN mark_alert_sent(alerts, j.alert_id)
                             ELSE alerts
                /\ running' = running
    /\ UNCHANGED <<events, event_content, participants, photos, questions, feedback,
                   session, seq, now, up, restarts, reminders>>

\* job_send_alert up to its first send: a missing event or an empty recipient
\* list marks the alert sent at once.
job_send_alert_start(j) ==
    /\ up
    /\ j \in jobs
    /\ now >= j.run_at
    /\ jobs' = jobs \ {j}
    /\ started' = started \cup {j.alert_id}
    /\ out' = <<>>
    /\ IF ~event_exists(events, j.event_id)
       THEN /\ alerts' = mark_alert_sent(alerts, j.alert_id)
            /\ running' = running
       ELSE LET event == get_event(events, j.event_id)
                content == get_event_content(event_content, j.event_id)
                recipient_ids == Recipients(events, participants, j.event_id)
            IN  IF recipient_ids = {}
                THEN /\ alerts' = mark_alert_sent(alerts, j.alert_id)
                     /\ running' = running
                ELSE /\ alerts' = alerts
                     /\ running' = running \cup
                            {[alert_id |-> j.alert_id, event_id |-> j.event_id,
                              recipient_ids |-> recipient_ids, todo |-> recipient_ids,
                              msg |-> [name |-> html_escape(event.event_name),
                                       tm |-> display_event_time(content.event_time),
                                       loc |-> IF OrEmpty(content.event_location) = <<>>
                                               THEN <<"N", "o", "t", " ", "s", "e", "t">>
                                               ELSE html_escape(content.event_location)]]}
    /\ UNCHANGED <<events, event_content, participants, photos, questions, feedback,
                   session, seq, now, up, restarts, reminders>>

\* one send_message of the loop; a send that raises is logged and skipped
job_send_alert_send(r) ==
    /\ up
    /\ r \in running
    /\ r.todo # {}
    /\ LET pid == CHOOSE x \in r.todo : \A y \in r.todo : x <= y
       IN  /\ reminders' = Append(reminders, [alert_id |-> r.alert_id, to |-> pid, msg |-> r.msg])
           /\ running' = (running \ {r}) \cup {[r EXCEPT !.todo = @ \ {pid}]}
    /\ out' = <<>>
    /\ UNCHANGED <<store, session, seq, now, up, restarts, jobs, started>>

\* the end of job_send_alert
job_send_alert_finish(r) ==
    /\ up
    /\ r \in running
    /\ r.todo = {}
    /\ alerts' = mark_alert_sent(alerts, r.alert_id)
    /\ running' = running \ {r}
    /\ out' = <<>>
    /\ UNCHANGED <<events, event_content, participants, photos, questions, feedback,
                   session, seq, now, up, restarts, jobs, reminders, started>>

\* The recovery loop of post_init over list_future_alerts.
recover_alerts(al, t) ==
    {IF r.status = "scheduled" /\ ~(r.run_at_iso > t) THEN [r EXCEPT !.status = "sent"] ELSE r
        : r \in al}

recover_jobs_all(al, t) ==
    {[alert_id |-> r.id, event_id |-> r.event_id, run_at |-> r.run_at_iso]
        : r \in list_future_alerts(al)}

recover_jobs(al, t) ==
    {[alert_id |-> r.id, event_id |-> r.event_id, run_at |-> r.run_at_iso]
        : r \in {x \in list_future_alerts(al) : x.run_at_iso > t}}

\* the process starts again: post_init
post_init ==
    /\ ~up
    /\ up' = TRUE
    /\ alerts' = recover_alerts(alerts, now)
    /\ jobs' = recover_jobs(alerts, now)
    /\ out' = <<>>
    /\ UNCHANGED <<events, event_content, participants, photos, questions, feedback,
                   session, seq, now, restarts, running, reminders, started>>

\* The process stops; the JobQueue and the running coroutines are memory.
Crash ==
    /\ up
    /\ restarts < MaxRestarts
    /\ up' = FALSE
    /\ restarts' = restarts + 1
    /\ jobs' = {}
    /\ running' = {}
    /\ out' = <<>>
    /\ UNCHANGED <<store, session, seq, now, reminders, started>>

\* Time passes.  A running JobQueue starts a job when its time comes, so the
\* clock of a running process does not pass an armed job.
Tick ==
    /\ now + 15 \in Clock
    /\ up => \A j \in jobs : j.run_at > now
    /\ now' = now + 15
    /\ out' = <<>>
    /\ UNCHANGED <<store, session, seq, up, restarts, jobs, running, reminders, started>>

(* ---------------------------- specification ---------------------------- *)
Init ==
    /\ events = {} /\ event_content = {} /\ participants = {} /\ photos = {}
    /\ questions = {} /\ feedback = {} /\ alerts = {}
    /\ user_state = {} /\ user_context = {}
    /\ seq = [event |-> 0, photo |-> 0, question |-> 0, alert |-> 0]
    /\ now = 0 /\ up = TRUE /\ restarts = 0
    /\ jobs = {} /\ running = {} /\ reminders = <<>> /\ started = {}
    /\ out = <<>>
    /\ handled = [kind |-> "none", user |-> NoUser, state |-> "None"]


\* The update a step handles, with the state the user was in when it came.
Handling(kind, u) ==
    handled' = [kind |-> kind, user |-> u, state |-> get_user_state(user_state, u).state]

\* The updates of the sessions: commands, the hub and event tokens, every
\* token that starts a flow, the registration flow with its three kinds of
\* message, and the cancel inputs.
Commands ==
    \E u \in Users :
        \/ cmd_start_plain(u) /\ Handling("command", u)
        \/ cmd_my_events(u) /\ Handling("command", u)
        \/ cmd_help(u) /\ Handling("command", u)
        \/ cmd_cancel(u) /\ Handling("command", u)
        \/ \E e \in OneEvent : cmd_start(u, e) /\ Handling("command", u)

Hub ==
    \E u \in Users :
        \/ cb_hub_none(u) /\ Handling("callback", u)
        \/ cb_hub_admin(u) /\ Handling("callback", u)
        \/ cb_hub_joined(u) /\ Handling("callback", u)
        \/ cb_event_create(u) /\ Handling("callback", u)
        \/ \E e \in OneEvent : cb_event_open(u, e, "hub_joined") /\ Handling("callback", u)
        \/ cb_choose_event_first(u) /\ Handling("callback", u)
        \/ cb_role_mismatch(u) /\ Handling("callback", u)

FlowStarts ==
    \E u \in Users :
        \/ \E data \in DOMAIN AdminEditStates : admin_edit(u, data) /\ Handling("callback", u)
        \/ admin_photos_done(u) /\ Handling("callback", u)
        \/ admin_back_to_menu(u) /\ Handling("callback", u)
        \/ p_ask(u) /\ Handling("callback", u)
        \/ \E rating \in {1, -1} : p_rate(u, rating) /\ Handling("callback", u)
        \/ p_feedback_skip(u) /\ Handling("callback", u)
        \/ p_back_to_menu(u) /\ Handling("callback", u)

Registration ==
    \E u \in Users :
        \/ \E raw \in {T_space, T_amp} :
              (seq.event = 0 \/ raw = T_space) /\ on_text_create_event_name(u, raw)
              /\ Handling("text", u)
        \/ \E raw \in {T_a, T_AlPadded} : on_text_reg_full_name(u, raw) /\ Handling("text", u)
        \/ \E raw \in {T_Al, P_plain} : on_text_reg_phone(u, raw) /\ Handling("text", u)
        \/ \E raw \in {T_a, T_Co} : on_text_reg_company(u, raw) /\ Handling("text", u)
        \/ \E raw \in {T_Cancel} : on_text_cancel(u, raw) /\ Handling("text", u)
        \/ \E raw \in {T_a} : on_text_other(u, raw) /\ Handling("text", u)
        \/ \E c \in {NoUser} \cup Users, ph \in {P_plain, P_letters} :
              on_contact(u, c, ph) /\ Handling("contact", u)
        \/ on_location(u, 1, 2) /\ Handling("location", u)
        \/ on_photo_other(u) /\ Handling("photo", u)

Membership ==
    \E u \in Users :
        \/ \E e \in OneEvent : cb_event_delete(u, e) /\ Handling("callback", u)
        \/ \E e \in OneEvent : cb_event_leave(u, e) /\ Handling("callback", u)
        \/ admin_delete_yes(u) /\ Handling("callback", u)
        \/ p_leave_yes(u) /\ Handling("callback", u)

Next == Commands \/ Hub \/ FlowStarts \/ Registration \/ Membership

Spec == Init /\ [][Next]_vars

\* The updates that write the store: an event is created, joined, given a
\* time, an alert, photos, questions and feedback, notified, left and deleted,
\* by tokens and by flows that may outlive the event they were started in.
StoreSetup ==
    \E u \in Users :
        \/ u \in Organizers /\ cb_event_create(u) /\ Handling("callback", u)
        \/ seq.event = 0 /\ on_text_create_event_name(u, T_amp) /\ Handling("text", u)
        \/ \E e \in OneEvent : cmd_start(u, e) /\ Handling("command", u)
        \/ \E raw \in {T_AlPadded} : on_text_reg_full_name(u, raw) /\ Handling("text", u)
        \/ on_contact(u, u, P_plain) /\ Handling("contact", u)
        \/ \E raw \in {T_Co} : on_text_reg_company(u, raw) /\ Handling("text", u)
        \/ cmd_cancel(u) /\ Handling("command", u)

StoreFlows ==
    \E u \in Users :
        \/ \E data \in {"admin:time_edit", "admin:notify", "admin:photos_upload"} :
              admin_edit(u, data) /\ Handling("callback", u)
        \/ admin_alert_set(u, 15) /\ Handling("callback", u)
        \/ p_ask(u) /\ Handling("callback", u)
        \/ \E rating \in {1, -1} : p_rate(u, rating) /\ Handling("callback", u)
        \/ \E raw \in {T_time30} : on_text_admin_set_time(u, raw) /\ Handling("text", u)
        \/ \E raw \in {T_Al} : on_text_admin_notify_text(u, raw) /\ Handling("text", u)
        \/ \E raw \in {T_Al} : on_text_p_ask_question(u, raw) /\ Handling("text", u)
        \/ \E raw \in {T_space, T_Al} : on_text_p_feedback_comment(u, raw) /\ Handling("text", u)
        \/ on_photo_upload(u, "F1", NullText) /\ Handling("photo", u)
        \/ on_photo_notify(u, "F1", T_Al) /\ Handling("photo", u)

StoreRemovals ==
    \E u \in Users :
        \/ \E e \in OneEvent : cb_event_delete(u, e) /\ Handling("callback", u)
        \/ admin_delete_yes(u) /\ Handling("callback", u)
        \/ p_leave_yes(u) /\ Handling("callback", u)

NextStore == StoreSetup \/ StoreFlows \/ StoreRemovals

SpecStore == Init /\ [][NextStore]_vars

\* The updates around one reminder: an event with a time and a location,
\* attendees who join and leave, one alert, the clock and the alert job.
ReminderSetup ==
    \/ \E u \in Organizers :
          \/ cb_event_create(u) /\ Handling("callback", u)
          \/ seq.event = 0 /\ on_text_create_event_name(u, T_amp) /\ Handling("text", u)
          \/ \E data \in {"admin:time_edit", "admin:location_edit"} :
                admin_edit(u, data) /\ Handling("callback", u)
          \/ \E raw \in {T_time30, T_time45} : on_text_admin_set_time(u, raw) /\ Handling("text", u)
          \/ \E raw \in {T_Al} : on_text_admin_set_location(u, raw) /\ Handling("text", u)
          \/ \E minutes \in {15, 30} :
                seq.alert = 0 /\ admin_alert_set(u, minutes) /\ Handling("callback", u)
    \/ \E u \in Attendees :
          \/ \E e \in OneEvent : cmd_start(u, e) /\ Handling("command", u)
          \/ p_leave_yes(u) /\ Handling("callback", u)

AlertJob ==
    \/ \E j \in jobs : job_send_alert_start(j) /\ Handling("job_start", NoUser)
    \/ \E r \in running : job_send_alert_send(r) /\ Handling("job_send", NoUser)
    \/ \E r \in running : job_send_alert_finish(r) /\ Handling("job_finish", NoUser)
    \/ Tick /\ Handling("tick", NoUser)

NextReminder == ReminderSetup \/ AlertJob

SpecReminder == Init /\ [][NextReminder]_vars

\* The updates around recovery: alerts of an event with one attendee, the
\* clock, the alert job, and the process going down and coming up.
RecoverySetup ==
    \/ \E u \in Organizers :
          \/ cb_event_create(u) /\ Handling("callback", u)
          \/ seq.event = 0 /\ on_text_create_event_name(u, T_amp) /\ Handling("text", u)
          \/ admin_edit(u, "admin:time_edit") /\ Handling("callback", u)
          \/ \E raw \in {T_time45} : on_text_admin_set_time(u, raw) /\ Handling("text", u)
          \/ \E minutes \in {15, 30} : admin_alert_set(u, minutes) /\ Handling("callback", u)
          \/ admin_delete_yes(u) /\ Handling("callback", u)
    \/ \E e \in OneEvent : cmd_start(102, e) /\ Handling("command", 102)

Restarts ==
    \/ Crash /\ Handling("crash", NoUser)
    \/ post_init /\ Handling("post_init", NoUser)

NextRecovery == RecoverySetup \/ AlertJob \/ Restarts

SpecRecovery == Init /\ [][NextRecovery]_vars

\* The same updates when arming a job may fail.  Time advances and a due
\* job runs (the JobQueue), a job that runs goes on to its end, and a
\* process that went down is started again; that it goes down is not
\* required.
NextArming ==
    \/ NextRecovery
    \/ \E u \in Organizers, minutes \in {15, 30} :
          admin_alert_set_unarmed(u, minutes) /\ Handling("callback", u)

SpecArming ==
    /\ Init /\ [][NextArming]_vars
    /\ WF_vars(AlertJob)
    /\ WF_vars(post_init /\ Handling("post_init", NoUser))

\* The updates of the text flows: the organizer starts each edit flow and
\* the attendee each registration and participant flow, and both answer with
\* inputs the state accepts, inputs its validator refuses and messages of
\* another kind; the event may be deleted under a flow.
NextFlows ==
    \/ \E u \in Organizers :
          \/ cb_event_create(u) /\ Handling("callback", u)
          \/ \E raw \in {T_space, T_amp} :
              (seq.event = 0 \/ raw = T_space) /\ on_text_create_event_name(u, raw)
              /\ Handling("text", u)
          \/ \E data \in DOMAIN AdminEditStates : admin_edit(u, data) /\ Handling("callback", u)
          \/ \E raw \in {T_badtime, T_time30} : on_text_admin_set_time(u, raw) /\ Handling("text", u)
          \/ \E raw \in {T_Al, T_clear} : on_text_admin_set_map_pin(u, raw) /\ Handling("text", u)
          \/ \E raw \in {T_Al, T_wifi_short, T_wifi} :
                on_text_admin_set_wifi(u, raw) /\ Handling("text", u)
          \/ \E raw \in {T_Al} : on_text_admin_set_org(u, raw) /\ Handling("text", u)
          \/ admin_delete_yes(u) /\ Handling("callback", u)
    \/ \E u \in Users \ Organizers :
          \/ \E e \in OneEvent : cmd_start(u, e) /\ Handling("command", u)
          \/ \E raw \in {T_a, T_AlPadded} : on_text_reg_full_name(u, raw) /\ Handling("text", u)
          \/ \E raw \in {T_Al} : on_text_reg_phone(u, raw) /\ Handling("text", u)
          \/ \E raw \in {T_a, T_Co} : on_text_reg_company(u, raw) /\ Handling("text", u)
          \/ \E rating \in {1} : p_rate(u, rating) /\ Handling("callback", u)
          \/ \E raw \in {T_space, T_Al} : on_text_p_feedback_comment(u, raw) /\ Handling("text", u)
    \/ \E u \in Users :
          \/ \E raw \in {T_Cancel} : on_text_cancel(u, raw) /\ Handling("text", u)
          \/ \E raw \in {T_a} : on_text_other(u, raw) /\ Handling("text", u)
          \/ \E c \in Users, ph \in {P_plain, P_letters} :
                on_contact(u, c, ph) /\ Handling("contact", u)
          \/ on_location(u, 1, 2) /\ Handling("location", u)
          \/ on_photo_other(u) /\ Handling("photo", u)

SpecFlows == Init /\ [][NextFlows]_vars

\* The updates of the callback router: every token of the hub, of an event,
\* of the organizer and of the participant, well formed or not, sent by the
\* organizer and by the other user, around one event that gets a time, a
\* photo and an alert.
NextTokens ==
    \E u \in Users :
        \/ u \in Organizers /\ cb_event_create(u) /\ Handling("callback", u)
        \/ seq.event = 0 /\ on_text_create_event_name(u, T_amp) /\ Handling("text", u)
        \/ \E e \in OneEvent : cmd_start(u, e) /\ Handling("command", u)
        \/ cb_hub_none(u) /\ Handling("hub:none", u)
        \/ cb_hub_admin(u) /\ Handling("hub:admin", u)
        \/ cb_hub_joined(u) /\ Handling("hub:joined", u)
        \/ \E e \in OneEvent : cb_event_open(u, e, "hub_joined") /\ Handling("event:open", u)
        \/ \E e \in OneEvent : cb_event_invite(u, e) /\ Handling("event:invite", u)
        \/ \E e \in OneEvent : cb_event_del_confirm(u, e) /\ Handling("event:del_confirm", u)
        \/ \E e \in OneEvent : cb_event_delete(u, e) /\ Handling("event:delete", u)
        \/ \E e \in OneEvent : cb_event_leave_confirm(u, e) /\ Handling("event:leave_confirm", u)
        \/ \E e \in OneEvent : cb_event_leave(u, e) /\ Handling("event:leave", u)
        \/ cb_choose_event_first(u) /\ Handling("other", u)
        \/ cb_role_mismatch(u) /\ Handling("other", u)
        \/ cb_event_open_short(u) /\ Handling("event:open:short", u)
        \/ cb_event_split_error(u) /\ Handling("event:split", u)
        \/ cb_int_error(u) /\ Handling("int", u)
        \/ \E data \in DOMAIN AdminViewTexts : admin_view(u, data) /\ Handling(data, u)
        \/ admin_questions(u) /\ Handling("admin:questions", u)
        \/ \E data \in {"admin:time_edit", "admin:photos_upload"} :
              admin_edit(u, data) /\ Handling(data, u)
        \/ \E raw \in {T_time30} : on_text_admin_set_time(u, raw) /\ Handling("text", u)
        \/ on_photo_upload(u, "F1", NullText) /\ Handling("photo", u)
        \/ admin_alert_set(u, 15) /\ Handling("admin:alert_set", u)
        \/ admin_delete_yes(u) /\ Handling("admin:delete_yes", u)
        \/ \E data \in DOMAIN ParticipantViewTexts : p_view(u, data) /\ Handling(data, u)
        \/ \E rating \in Ratings : p_rate(u, rating) /\ Handling("p:rate", u)
        \/ p_leave_yes(u) /\ Handling("p:leave_yes", u)

SpecTokens == Init /\ [][NextTokens]_vars

\* The updates around a notification: one event, two attendees who join and
\* leave, and the organizer's text and photo notifications, each delivery
\* of which may fail.
NextBroadcast ==
    \/ \E u \in Organizers :
          \/ cb_event_create(u) /\ Handling("callback", u)
          \/ seq.event = 0 /\ on_text_create_event_name(u, T_amp) /\ Handling("text", u)
          \/ admin_edit(u, "admin:notify") /\ Handling("callback", u)
          \/ \E raw \in {T_Al, T_space} : on_text_admin_notify_text(u, raw) /\ Handling("text", u)
          \/ \E caption \in {NullText, T_Al} :
                on_photo_notify(u, "F1", caption) /\ Handling("photo", u)
    \/ \E u \in Attendees :
          \/ \E e \in OneEvent : cmd_start(u, e) /\ Handling("command", u)
          \/ p_leave_yes(u) /\ Handling("callback", u)

SpecBroadcast == Init /\ [][NextBroadcast]_vars

\* The updates around the upload mode: the organizer opens it, sends photos
\* and text, starts another flow, closes it, cancels, uses the commands and
\* the hub, and deletes the event under it.
NextUpload ==
    \E u \in Organizers :
        \/ cb_event_create(u) /\ Handling("event:create", u)
        \/ seq.event = 0 /\ on_text_create_event_name(u, T_amp) /\ Handling("text", u)
        \/ \E data \in {"admin:photos_upload", "admin:time_edit"} :
              admin_edit(u, data) /\ Handling(data, u)
        \/ \E raw \in {T_badtime, T_time30} : on_text_admin_set_time(u, raw) /\ Handling("text", u)
        \/ \E caption \in {NullText, T_Al} :
              on_photo_upload(u, "F1", caption) /\ Handling("photo", u)
        \/ on_photo_other(u) /\ Handling("photo", u)
        \/ \E raw \in {T_a} : on_text_other(u, raw) /\ Handling("text", u)
        \/ \E raw \in {T_Cancel} : on_text_cancel(u, raw) /\ Handling("text", u)
        \/ admin_photos_done(u) /\ Handling("admin:photos_done", u)
        \/ cmd_cancel(u) /\ Handling("cmd:cancel", u)
        \/ cmd_start_plain(u) /\ Handling("cmd:start", u)
        \/ cmd_my_events(u) /\ Handling("cmd:my_events", u)
        \/ cmd_help(u) /\ Handling("cmd:help", u)
        \/ cb_hub_none(u) /\ Handling("hub:none", u)
        \/ cb_hub_admin(u) /\ Handling("hub:admin", u)
        \/ cb_hub_joined(u) /\ Handling("hub:joined", u)
        \/ admin_delete_yes(u) /\ Handling("admin:delete_yes", u)

SpecUpload == Init /\ [][NextUpload]_vars

\* The updates around both kinds of delivery: one event with a time and one
\* alert, attendees who join and leave, the organizer's text and photo
\* notifications, the clock and the alert job.
NextDelivery ==
    \/ \E u \in Organizers :
          \/ cb_event_create(u) /\ Handling("callback", u)
          \/ seq.event = 0 /\ on_text_create_event_name(u, T_amp) /\ Handling("text", u)
          \/ \E e \in OneEvent : cmd_start(u, e) /\ Handling("command", u)
          \/ \E data \in {"admin:time_edit", "admin:notify"} :
                admin_edit(u, data) /\ Handling("callback", u)
          \/ \E raw \in {T_time30} : on_text_admin_set_time(u, raw) /\ Handling("text", u)
          \/ seq.alert = 0 /\ admin_alert_set(u, 15) /\ Handling("callback", u)
          \/ \E raw \in {T_Al} : on_text_admin_notify_text(u, raw) /\ Handling("text", u)
          \/ on_photo_notify(u, "F1", NullText) /\ Handling("photo", u)
    \/ \E u \in Attendees :
          \/ \E e \in OneEvent : cmd_start(u, e) /\ Handling("command", u)
          \/ p_leave_yes(u) /\ Handling("callback", u)
    \/ AlertJob

SpecDelivery == Init /\ [][NextDelivery]_vars

\* The updates around the questions view: one event, two attendees who open
\* it and send questions at different minutes, and the organizer who opens
\* the view.
NextQuestions ==
    \/ \E u \in Organizers :
          \/ cb_event_create(u) /\ Handling("callback", u)
          \/ seq.event = 0 /\ on_text_create_event_name(u, T_amp) /\ Handling("text", u)
          \/ admin_questions(u) /\ Handling("admin:questions", u)
    \/ \E u \in Attendees :
          \/ \E e \in OneEvent : cmd_start(u, e) /\ Handling("command", u)
          \/ p_ask(u) /\ Handling("callback", u)
          \/ \E raw \in {T_Al, T_amp} : on_text_p_ask_question(u, raw) /\ Handling("text", u)
    \/ Tick /\ Handling("tick", NoUser)

SpecQuestions == Init /\ [][NextQuestions]_vars

\* The updates around two events: either user creates events, opens the
\* link of an event, starts the agenda, the time and the notification flow
\* of the own event, presses the Cancel button under the prompt or sends the
\* agenda or the time, and deletes the event.
NextEvents ==
    \E u \in Users :
        \/ cb_event_create(u) /\ Handling("event:create", u)
        \/ \E raw \in {T_space, T_amp} :
              on_text_create_event_name(u, raw) /\ Handling("text", u)
        \/ on_text_cancel(u, T_Cancel) /\ Handling("text", u)
        \/ \E e \in EventIds : cmd_start(u, e) /\ Handling("cmd:start", u)
        \/ \E data \in {"admin:agenda_edit", "admin:time_edit", "admin:notify"} :
              admin_edit(u, data) /\ Handling(data, u)
        \/ \E raw \in {T_a} : on_text_admin_edit_agenda(u, raw) /\ Handling("text", u)
        \/ \E raw \in {T_time30} : on_text_admin_set_time(u, raw) /\ Handling("text", u)
        \/ admin_view(u, "admin:agenda") /\ Handling("admin:agenda", u)
        \/ admin_back_to_menu(u) /\ Handling("admin:back_to_menu", u)
        \/ on_text_other(u, T_a) /\ Handling("text", u)
        \/ admin_delete_yes(u) /\ Handling("admin:delete_yes", u)

SpecEvents == Init /\ [][NextEvents]_vars

(* ------------------------------ properties ----------------------------- *)
RowsOf(us, u) == {r \in us : r.telegram_id = u}

\* the prompt each flow start renders, and the state it sets
StartPrompts ==
    [t \in {"create_event_prompt", "reg_full_name_prompt", "ask_question_prompt",
            "rating_saved_optional_comment"} \cup {AdminEditPrompts[d] : d \in DOMAIN AdminEditPrompts} |->
        CASE t = "create_event_prompt" -> "create_event_name"
          [] t = "reg_full_name_prompt" -> "reg_full_name"
          [] t = "ask_question_prompt" -> "p_ask_question"
          [] t = "rating_saved_optional_comment" -> "p_feedback_comment"
          [] OTHER -> AdminEditStates[CHOOSE d \in DOMAIN AdminEditPrompts : AdminEditPrompts[d] = t]]

\* the keys of the payload a flow starts with
FreshKeys(state) ==
    CASE state = "create_event_name" -> {"src"}
      [] state = "reg_full_name" -> {"event_id", "src"}
      [] state = "p_feedback_comment" -> {"event_id", "rating"}
      [] OTHER -> {"event_id"}

\* this step started a flow for u
StartedFlow(u) ==
    /\ handled'.user = u
    /\ handled'.kind \in {"command", "callback"}
    /\ out' # <<>>
    /\ out'[1].to = u
    /\ out'[1].text \in DOMAIN StartPrompts

\* C1: every user has at most one session row at any time, and a step that
\* starts a flow leaves the user with exactly the row of the new flow: its
\* state, and a payload with the keys of that flow only, for the event the
\* user is in; nothing of the flow that was active before is kept.
C1_OneSessionState ==
    /\ [](\A u \in Users : Cardinality(RowsOf(user_state, u)) <= 1)
    /\ [][\A u \in Users :
            StartedFlow(u) =>
                \E r \in user_state' :
                    /\ RowsOf(user_state', u) = {r}
                    /\ r.state = StartPrompts[out'[1].text]
                    /\ DOMAIN r.payload = FreshKeys(r.state)
                    /\ "event_id" \in DOMAIN r.payload =>
                          r.payload.event_id = get_current_event(user_context', u)]_vars

\* a question flow was started over a registration waiting for the phone
C1_Witness ==
    \E u \in Users :
        /\ handled = [kind |-> "callback", user |-> u, state |-> "reg_phone"]
        /\ out = <<Reply(u, "ask_question_prompt")>>
        /\ RowsOf(user_state, u) =
              {[telegram_id |-> u, state |-> "p_ask_question", payload |-> [event_id |-> 1]]}

Filled(t) == t # NullText /\ t # <<>>

RowOf(ps, e, u) == {r \in ps : r.event_id = e /\ r.telegram_id = u}

\* C2: a participant row is fully registered exactly when its full name, phone
\* and company are all non-empty; a row is inserted with none of the three,
\* and the three change only in the step that completes reg_company.
C2_FullRegistration ==
    /\ [](\A r \in participants :
            has_full_registration(participants, r.event_id, r.telegram_id)
                <=> (Filled(r.full_name) /\ Filled(r.phone_number) /\ Filled(r.company_name)))
    /\ [][\A e \in EventIds, u \in Users :
            LET old == RowOf(participants, e, u)
                new == RowOf(participants', e, u)
            IN  /\ (old = {} /\ new # {}) =>
                      new = {[event_id |-> e, telegram_id |-> u, full_name |-> NullText,
                              phone_number |-> NullText, company_name |-> NullText]}
                /\ (old # {} /\ new # {} /\ new # old) =>
                      /\ handled' = [kind |-> "text", user |-> u, state |-> "reg_company"]
                      /\ Get(PayloadOf(u), "event_id", NoEvent) = e
                      /\ out'[1] = Reply(u, "reg_saved")]_vars

\* the registration of a user was completed and the row is fully registered
C2_Witness ==
    \E u \in Users, r \in participants :
        /\ handled = [kind |-> "text", user |-> u, state |-> "reg_company"]
        /\ out = <<Reply(u, "reg_saved"), Menu(u, r.event_id)>>
        /\ r.telegram_id = u
        /\ has_full_registration(participants, r.event_id, u)
        /\ r.full_name = T_Al /\ r.phone_number = <<"+", "1", "2", "3">> /\ r.company_name = T_Co

\* C3 as stated: in reg_phone no text, photo or location changes the user's
\* state or payload.
C3_AnyNonContactKeeps ==
    [][\A u \in Users :
          (/\ handled'.user = u
           /\ handled'.state = "reg_phone"
           /\ handled'.kind \in {"text", "photo", "location"})
          => RowsOf(user_state', u) = RowsOf(user_state, u)]_vars

\* C3: in reg_phone a photo, a location and every text but the cancel word
\* leave the user's state and payload as they were; the cancel word, which
\* on_text answers before it looks at the state, ends the flow.
C3_NonContactKeepsButCancel ==
    [][\A u \in Users :
          (handled'.user = u /\ handled'.state = "reg_phone") =>
              /\ handled'.kind \in {"photo", "location"} =>
                    RowsOf(user_state', u) = RowsOf(user_state, u)
              /\ (handled'.kind = "text" /\ out' # <<Reply(u, "cancelled")>>) =>
                    /\ RowsOf(user_state', u) = RowsOf(user_state, u)
                    /\ out' = <<Reply(u, "reg_phone_reject")>>
              /\ (handled'.kind = "text" /\ out' = <<Reply(u, "cancelled")>>) =>
                    RowsOf(user_state', u) = {}]_vars

\* a text was rejected in reg_phone and the name given before is still there
C3_Witness ==
    \E u \in Users :
        /\ handled = [kind |-> "text", user |-> u, state |-> "reg_phone"]
        /\ out = <<Reply(u, "reg_phone_reject")>>
        /\ StateOf(u) = "reg_phone"
        /\ Get(PayloadOf(u), "full_name", <<>>) = T_Al

\* C9: the menu of an event is rendered to a user who does not organize it
\* only when the three registration steps have been completed for it.
C9_MenuOnlyAfterRegistration ==
    \A i \in DOMAIN out :
        out[i].text = "entered_event" =>
            \/ is_admin(events, out[i].ev, out[i].to)
            \/ has_full_registration(participants, out[i].ev, out[i].to)

\* C10: a step that answers the cancel command or the cancel word leaves the
\* user without a session row, whatever the state was, and leaves every
\* table of the store as it was.
C10_CancelClears ==
    [][\A u \in Users :
          (handled'.user = u /\ out' = <<Reply(u, "cancelled")>>) =>
              /\ handled'.kind \in {"command", "text"}
              /\ RowsOf(user_state', u) = {}
              /\ UNCHANGED store]_vars

\* the cancel word ended a photo upload, the event and its rows being there
C10_Witness ==
    \E u \in Users :
        /\ handled = [kind |-> "text", user |-> u, state |-> "admin_upload_photos"]
        /\ out = <<Reply(u, "cancelled")>>
        /\ StateOf(u) = "None"
        /\ events # {} /\ participants # {}

ChildRows == event_content \cup participants \cup photos \cup questions \cup feedback \cup alerts

\* C4: an event id that was given out and is no longer in events has no row
\* in event_content, participants, photos, anonymous_questions, feedback or
\* alerts, in any state after the deletion.
C4_NoRowsOfDeletedEvent ==
    \A e \in EventIds :
        (e <= seq.event /\ ~event_exists(events, e)) => \A r \in ChildRows : r.event_id # e

\* the event had a photo, a question, an alert and feedback, it was deleted,
\* and the comment of the feedback flow that outlived it was refused
C4_Witness ==
    \E u \in Users :
        /\ seq = [event |-> 1, photo |-> 1, question |-> 1, alert |-> 1]
        /\ events = {} /\ ChildRows = {}
        /\ handled = [kind |-> "text", user |-> u, state |-> "p_feedback_comment"]
        /\ out = <<[to |-> NoUser, text |-> "IntegrityError"]>>

FeedbackOf(fb, e, u) == {r \in fb : r.event_id = e /\ r.telegram_id = u}

\* C5: a rating step leaves one feedback row with the rating sent and the
\* comment the row had before (none for a new row); a blank comment text is
\* answered with comment_empty and changes neither the row nor the state; no
\* step turns a present comment into an empty or missing one.
C5_FeedbackUpsert ==
    [][\A u \in Users, e \in EventIds :
          LET old == FeedbackOf(feedback, e, u)
              new == FeedbackOf(feedback', e, u)
          IN  /\ (/\ handled'.user = u
                  /\ out' = <<Reply(u, "rating_saved_optional_comment")>>
                  /\ get_current_event(user_context, u) = e)
                 => \E r \in new :
                        /\ new = {r}
                        /\ r.rating = get_user_state(user_state', u).payload.rating
                        /\ r.rating \in {1, -1}
                        /\ \A o \in old : r.comment = o.comment
                        /\ old = {} => r.comment = NullText
              /\ (handled'.user = u /\ out' = <<Reply(u, "comment_empty")>>)
                 => /\ feedback' = feedback
                    /\ RowsOf(user_state', u) = RowsOf(user_state, u)
              /\ \A o \in old, r \in new : Filled(o.comment) => Filled(r.comment)]_vars

\* rated up with a comment, rated up again, a blank comment, rated down: the
\* row has the rating -1 and the comment
C5_Witness ==
    \E u \in Users :
        /\ handled = [kind |-> "callback", user |-> u, state |-> "p_feedback_comment"]
        /\ out = <<Reply(u, "rating_saved_optional_comment")>>
        /\ feedback = {[event_id |-> 1, telegram_id |-> u, rating |-> -1, comment |-> T_Al]}

RemindersOf(id, u) ==
    {i \in DOMAIN reminders : reminders[i].alert_id = id /\ reminders[i].to = u}

JobsOf(jq, id) == {j \in jq : j.alert_id = id}

MessageKinds == {"text", "contact", "location", "photo"}

AcceptedKinds(state) ==
    CASE state = "reg_phone" -> {"contact"}
      [] state = "admin_set_map_pin" -> {"location", "text"}
      [] state = "admin_notify_text" -> {"text", "photo"}
      [] state = "admin_upload_photos" -> {"photo"}
      [] OTHER -> {"text"}

\* this step handled a message of a kind the state of u does not take
WrongKind(u) ==
    /\ handled'.user = u
    /\ handled'.state # "None"
    /\ handled'.kind \in MessageKinds
    /\ handled'.kind \notin AcceptedKinds(handled'.state)

\* this step handled an input the validator of the state of u refuses
InvalidInput(u) ==
    \/ /\ handled'.user = u /\ handled'.kind = "text"
       /\ \/ on_text_create_event_name(u, T_space)
          \/ on_text_reg_full_name(u, T_a)
          \/ on_text_reg_company(u, T_a)
          \/ on_text_admin_set_time(u, T_badtime)
          \/ on_text_admin_set_wifi(u, T_Al)
          \/ on_text_admin_set_wifi(u, T_wifi_short)
          \/ on_text_admin_set_org(u, T_Al)
          \/ on_text_admin_set_map_pin(u, T_Al)
          \/ on_text_p_feedback_comment(u, T_space)
    \/ /\ handled'.user = u /\ handled'.kind = "contact" /\ handled'.state = "reg_phone"
       /\ \/ \E c \in Users \ {u} : on_contact(u, c, P_plain)
          \/ on_contact(u, u, P_letters)

SessionKept(u) == RowsOf(user_state', u) = RowsOf(user_state, u)

\* C11 as stated: a message of a kind the state does not take, or one its
\* validator refuses, changes neither the state and payload of the user nor
\* the store.
C11_EveryRefusalKeeps ==
    [][\A u \in Users :
          (WrongKind(u) \/ InvalidInput(u)) => SessionKept(u) /\ UNCHANGED store]_vars

\* C11: such a message never changes the store, and it leaves the state and
\* payload as they were, with two exceptions that end the flow: the cancel
\* word sent as text where text is not taken, and a name that is too short
\* when the event of the registration is gone.
C11_RefusalKeepsButCancelAndGoneEvent ==
    [][\A u \in Users :
          LET cancelled == handled'.kind = "text" /\ out' = <<Reply(u, "cancelled")>>
              gone == /\ handled'.state = "reg_full_name"
                      /\ ~event_exists(events, Get(PayloadOf(u), "event_id", NoEvent))
          IN  /\ (WrongKind(u) \/ InvalidInput(u)) => UNCHANGED store
              /\ (WrongKind(u) /\ ~cancelled) => SessionKept(u)
              /\ (WrongKind(u) /\ cancelled) => RowsOf(user_state', u) = {}
              /\ (InvalidInput(u) /\ ~gone) => SessionKept(u) /\ Len(out') <= 1
              /\ (InvalidInput(u) /\ gone) =>
                    /\ RowsOf(user_state', u) = {}
                    /\ out' = <<Reply(u, "event_not_found")>>]_vars

\* a password of one character was refused: the wifi flow and the time the
\* event was given before are as they were
C11_Witness ==
    \E u \in Users :
        /\ handled = [kind |-> "text", user |-> u, state |-> "admin_set_wifi"]
        /\ out = <<Reply(u, "wifi_invalid_password")>>
        /\ RowsOf(user_state, u) =
              {[telegram_id |-> u, state |-> "admin_set_wifi", payload |-> [event_id |-> 1]]}
        /\ \E c \in event_content :
              c.event_id = 1 /\ c.event_time.set /\ c.wifi_password = NullText

\* C12: a text, contact, location or photo message of a user who has no
\* active state changes no table of the store, no session row and no
\* current-event pointer, of this user or of any other.
C12_IdleMessagesChangeNothing ==
    [][\A u \in Users :
          (/\ handled'.user = u
           /\ handled'.state = "None"
           /\ handled'.kind \in MessageKinds)
          => UNCHANGED <<store, session>>]_vars

\* a text came from a user with no flow, while an event exists and the other
\* user is in the middle of a registration
C12_Witness ==
    \E u \in Users : \E v \in Users \ {u} :
        /\ handled = [kind |-> "text", user |-> u, state |-> "None"]
        /\ out = <<Reply(u, "use_my_events_to_continue")>>
        /\ RowsOf(user_state, u) = {}
        /\ events # {}
        /\ get_user_state(user_state, v).state = "reg_phone"

\* the states in which an organizer's message writes to the event
AdminWriteStates ==
    {"admin_edit_agenda", "admin_set_time", "admin_set_location", "admin_set_wifi",
     "admin_set_org", "admin_set_map_pin", "admin_notify_text", "admin_upload_photos"}

\* the replies that confirm a write or a delivery
WriteConfirmations ==
    {"agenda_updated", "time_updated", "location_updated", "wifi_updated", "org_updated",
     "map_pin_removed", "map_pin_saved", "photo_saved_send_more", "broadcast_sending",
     "broadcast_done"}

\* C13: in the eight organizer states a message of a sender who is not the
\* organizer of the event the payload names is refused before the write: no
\* row of event_content changes and the handler confirms no update.
C13_ChecksOrganizerBeforeWriting ==
    [][\A u \in Users :
          (/\ handled'.user = u
           /\ handled'.state \in AdminWriteStates
           /\ handled'.kind \in MessageKinds
           /\ ~is_admin(events, PayloadEvent(u), u))
          => /\ event_content' = event_content
             /\ \A i \in DOMAIN out' : out'[i].text \notin WriteConfirmations]_vars

\* u is the organizer of event e in the events table ev
Organizes(ev, e, u) == \E r \in ev : r.event_id = e /\ r.admin_id = u

EventRows(t, e) == {r \in t : r.event_id = e}

\* C14: a step of a user that changes the row of an event, its content, its
\* photos or its alerts is a step of the organizer of that event (of the user
\* who becomes its organizer, when the step creates it); a leave token that
\* removes a participant row removes the sender's own row, and the sender
\* does not organize the event; an event always has its organizer among its
\* participants.
C14_OnlyOrganizerChangesEvent ==
    /\ [][\A e \in EventIds, u \in Users :
            handled'.user = u =>
              /\ (\/ EventRows(events', e) # EventRows(events, e)
                  \/ EventRows(event_content', e) # EventRows(event_content, e)
                  \/ EventRows(photos', e) # EventRows(photos, e)
                  \/ EventRows(alerts', e) # EventRows(alerts, e))
                 => \/ Organizes(events, e, u)
                    \/ EventRows(events, e) = {} /\ Organizes(events', e, u)
              /\ (/\ handled'.kind \in {"event:leave", "p:leave_yes"}
                  /\ EventRows(participants, e) \ participants' # {})
                 => /\ ~Organizes(events, e, u)
                    /\ \A r \in EventRows(participants, e) \ participants' : r.telegram_id = u]_vars
    /\ [](\A ev \in events :
            \E r \in participants : r.event_id = ev.event_id /\ r.telegram_id = ev.admin_id)

\* the event has a time, a photo and an alert, all by its organizer, and the
\* other user's event:delete was refused
C14_Witness ==
    \E u \in Users :
        /\ handled.kind = "event:delete" /\ handled.user = u
        /\ out = <<Reply(u, "not_allowed")>>
        /\ ~Organizes(events, 1, u)
        /\ \E c \in event_content : c.event_id = 1 /\ c.event_time.set
        /\ EventRows(photos, 1) # {} /\ EventRows(alerts, 1) # {}
        /\ \E r \in participants : r.event_id = 1 /\ r.telegram_id = u

\* the tokens that open a list or show a value
QueryTokens ==
    {"hub:none", "hub:admin", "hub:joined", "admin:manage", "admin:view", "admin:agenda",
     "admin:wifi", "admin:org", "admin:time", "admin:location", "admin:map_pin",
     "admin:agenda_view", "admin:wifi_view", "admin:org_view", "admin:time_view",
     "admin:location_view", "admin:map_pin_view", "admin:members", "admin:questions",
     "admin:feedback", "p:info", "p:feedback"}

\* C15: a step that answers a token that opens a list or shows a value
\* changes no table of the store and no session row.
C15_QueryTokensChangeNothing ==
    [][\A u \in Users :
          (handled'.user = u /\ handled'.kind \in QueryTokens)
          => UNCHANGED <<store, user_state>>]_vars

ConfirmTokens == {"event:del_confirm", "admin:delete", "event:leave_confirm", "p:leave"}

\* C16: a step that answers a confirm token changes no table of the store
\* and no session row; a step that removes an event row answers event:delete
\* or admin:delete_yes, and a step that removes a participant row of an event
\* that stays answers event:leave or p:leave_yes.
C16_ConfirmThenCommit ==
    [][\A u \in Users :
          handled'.user = u =>
            /\ handled'.kind \in ConfirmTokens => UNCHANGED <<store, session>>
            /\ events \ events' # {} => handled'.kind \in {"event:delete", "admin:delete_yes"}
            /\ (\E r \in participants \ participants' : event_exists(events', r.event_id))
               => handled'.kind \in {"event:leave", "p:leave_yes"}]_vars

\* the organizer was asked to confirm the deletion: the event, its photo, its
\* alert and the other user's participant row are still there
C16_Witness ==
    \E u \in Users :
        /\ handled.kind = "event:del_confirm" /\ handled.user = u
        /\ out = <<Reply(u, "delete_confirm")>>
        /\ Organizes(events, 1, u)
        /\ EventRows(photos, 1) # {} /\ EventRows(alerts, 1) # {}
        /\ Cardinality(EventRows(participants, 1)) = 2

\* the kinds of update of SpecTokens that are not callback tokens
NonTokenKinds == {"none", "command", "text", "photo"}

\* the tokens that are unrecognized, sent in the wrong role, or malformed
BadTokens == {"other", "event:open:short", "event:split", "int"}

\* C17: a step that answers a callback token ends with a message rendered to
\* the sender and not with an exception, and a token that is unrecognized,
\* sent in the wrong role or malformed changes no table and no session row.
C17_CallbackAlwaysRenders ==
    [][\A u \in Users :
          (handled'.user = u /\ handled'.kind \notin NonTokenKinds)
          => /\ out' # <<>>
             /\ \A i \in DOMAIN out' : out'[i].to = u /\ out'[i].text # "ValueError"
             /\ handled'.kind \in BadTokens => UNCHANGED <<store, session>>]_vars

\* the positions of out that are deliveries of a broadcast
Deliveries(o) == {i \in DOMAIN o : o[i].text = "broadcast"}

\* C18: a notification for an event with n participants other than the
\* organizer makes exactly one delivery call to each of them, whichever of
\* the calls fail, and then reports to the sender the number of calls that
\* succeeded and the number that failed, which add up to n.
C18_BroadcastReachesAll ==
    [][\A u \in Users :
          LET eid == PayloadEvent(u)
              rec == {r.telegram_id : r \in EventRows(participants, eid)} \ {u}
              sent == Deliveries(out')
          IN  (/\ handled'.user = u
               /\ handled'.state = "admin_notify_text"
               /\ handled'.kind \in {"text", "photo"}
               /\ Organizes(events, eid, u)
               /\ rec # {})
              => /\ {out'[i].to : i \in sent} = rec
                 /\ Cardinality(sent) = Cardinality(rec)
                 /\ \E d \in DOMAIN out' :
                       /\ out'[d].text = "broadcast_done" /\ out'[d].to = u
                       /\ \A i \in sent : i < d
                       /\ out'[d].success = Cardinality({i \in sent : out'[i].ok})
                       /\ out'[d].fail = Cardinality({i \in sent : ~out'[i].ok})
                       /\ out'[d].success + out'[d].fail = Cardinality(rec)]_vars

\* the first of two deliveries failed, the second was made all the same, and
\* the report says one and one
C18_Witness ==
    /\ handled = [kind |-> "text", user |-> 101, state |-> "admin_notify_text"]
    /\ Len(out) = 5
    /\ out[2].text = "broadcast" /\ out[2].to = 102 /\ ~out[2].ok
    /\ out[3].text = "broadcast" /\ out[3].to = 103 /\ out[3].ok
    /\ out[4] = [to |-> 101, text |-> "broadcast_done", success |-> 1, fail |-> 1]

\* the leads the reminder keyboard offers
AlertLeads == {15, 30, 60}

\* C19: a request to schedule an alert for an event that has no time, or
\* whose time minus the lead is not after now (equal to now included), adds
\* no alert row, takes no alert id, arms no job, changes nothing else that
\* is stored, and answers with the message of its case; and whenever an alert
\* row appears or a job is armed by a request, the event of that row has a
\* time and that time minus the lead of the row is after now.
C19_NoAlertForPastOrUnsetTime ==
    /\ [][\A u \in Users, minutes \in AlertLeads :
            admin_alert_set(u, minutes) =>
                LET et == get_event_content(event_content,
                                            get_current_event(user_context, u)).event_time
                IN  /\ ~et.set =>
                          /\ alerts' = alerts /\ jobs' = jobs /\ seq' = seq
                          /\ UNCHANGED <<store, session, runtime>>
                          /\ out' = <<Reply(u, "event_time_not_set")>>
                    /\ (et.set /\ et.min - minutes <= now) =>
                          /\ alerts' = alerts /\ jobs' = jobs /\ seq' = seq
                          /\ UNCHANGED <<store, session, runtime>>
                          /\ out' = <<Reply(u, "reminder_past")>>]_vars
    /\ [][handled'.kind = "callback" =>
            /\ \A a \in alerts' :
                  (\A b \in alerts : b.id # a.id) =>
                      LET et == get_event_content(event_content, a.event_id).event_time
                      IN  et.set /\ et.min - a.minutes_before > now
            /\ \A j \in jobs' \ jobs :
                  \E a \in alerts' \ alerts :
                      /\ a.id = j.alert_id
                      /\ j.run_at > now]_vars

\* the event is at 00:45 and it is 00:15: the alert 30 minutes before the
\* event would fire now, the request is refused, no alert row and no job
C19_Witness ==
    \E u \in Organizers :
        /\ handled.kind = "callback" /\ handled.user = u
        /\ out = <<Reply(u, "reminder_past")>>
        /\ now = 15
        /\ LET et == get_event_content(event_content,
                                       get_current_event(user_context, u)).event_time
           IN  et.set /\ et.min = 45
        /\ alerts = {} /\ jobs = {} /\ seq.alert = 0


\* C20: in every step an alert row that stays keeps its fields and either
\* keeps its status or goes from scheduled to sent, a new row is scheduled
\* and takes an id no row has had; the alert job is entered only for an
\* alert it has not been entered for before; an alert has at most one armed
\* job and at most one job in progress, and none armed once its job has been
\* entered; and no user has two send calls of the same alert.
C20_AtMostOnce ==
    /\ [][\A a \in alerts, b \in alerts' :
            b.id = a.id =>
                \/ b = a
                \/ a.status = "scheduled" /\ b = [a EXCEPT !.status = "sent"]]_vars
    /\ [][\A b \in alerts' :
            (\A a \in alerts : a.id # b.id) => b.status = "scheduled" /\ b.id > seq.alert]_vars
    /\ [](\A a \in alerts : a.status \in {"scheduled", "sent"} /\ a.id <= seq.alert)
    /\ [][\A j \in jobs \ jobs' :
            handled'.kind = "job_start" => j.alert_id \notin started]_vars
    /\ [][started \subseteq started'
            /\ (Len(reminders') > Len(reminders) =>
                    reminders'[Len(reminders')].alert_id \in started)]_vars
    /\ [](\A id \in 1..seq.alert :
            /\ Cardinality(JobsOf(jobs, id)) <= 1
            /\ Cardinality({r \in running : r.alert_id = id}) <= 1
            /\ id \in started => JobsOf(jobs, id) = {}
            /\ \A u \in Users : Cardinality(RemindersOf(id, u)) <= 1)

\* the job of an alert was entered and the attendee got its reminder; the
\* process went down and came up: the alert is sent and has no job, the
\* attendee still has one reminder of it, and the alert that is still ahead
\* is armed again and not entered
C20_Witness ==
    \E a \in alerts, b \in alerts :
        /\ handled.kind = "post_init" /\ up /\ restarts = 1
        /\ started = {a.id}
        /\ a.status = "sent" /\ JobsOf(jobs, a.id) = {}
        /\ Cardinality(RemindersOf(a.id, 102)) = 1
        /\ b.status = "scheduled" /\ Cardinality(JobsOf(jobs, b.id)) = 1


\* C21: when the job of an alert is entered and the event of the alert is
\* gone, the step makes no send call, starts no delivery, reports no error,
\* leaves no scheduled row of the alert and changes nothing else that is
\* stored; a delivery only starts for an event that exists.
C21_FiringAfterDeletion ==
    /\ [][handled'.kind = "job_start" =>
            \A j \in jobs \ jobs' :
                ~(\E ev \in events : ev.event_id = j.event_id) =>
                    /\ reminders' = reminders
                    /\ running' = running
                    /\ out' = <<>>
                    /\ \A a \in alerts' : a.id = j.alert_id => a.status = "sent"
                    /\ \A a \in alerts' : a.id # j.alert_id => a \in alerts
                    /\ UNCHANGED <<events, event_content, participants, photos, questions,
                                   feedback, session, seq>>]_vars
    /\ [][\A r \in running' \ running :
            r.todo = r.recipient_ids => \E ev \in events : ev.event_id = r.event_id]_vars

\* the event with its alert was deleted while the job was armed; the job was
\* entered at its time: no send call, no delivery, no error
C21_Witness ==
    /\ handled.kind = "job_start"
    /\ events = {} /\ seq.event = 1
    /\ started # {} /\ \A id \in started : JobsOf(jobs, id) = {}
    /\ reminders = <<>> /\ running = {} /\ out = <<>>
    /\ alerts = {}
    /\ restarts = 0


\* the flows of C22 and the step that ends one: an input of a kind the state
\* takes that its validator does not refuse
EndingFlows ==
    {"create_event_name", "reg_company", "admin_edit_agenda", "admin_set_time",
     "admin_set_location", "admin_set_wifi", "admin_set_org", "admin_set_map_pin",
     "admin_notify_text", "p_ask_question", "p_feedback_comment"}

TerminalStep(u) ==
    /\ handled'.user = u
    /\ handled'.state \in EndingFlows
    /\ handled'.kind \in AcceptedKinds(handled'.state)
    /\ ~InvalidInput(u)

\* C22: after the step that ends one of these flows, whether the flow
\* completed or was given up for a missing event or a failed organizer test,
\* the user has no state.
C22_FlowsEndIdle ==
    [][\A u \in Users : TerminalStep(u) => RowsOf(user_state', u) = {}]_vars


\* C23: a photo the organizer of the event sends in state
\* admin_upload_photos adds exactly one photo row, of that event, and leaves
\* state and payload as they were; and the state admin_upload_photos of a
\* user ends only in a step of that user that is the done token, an explicit
\* cancel (the command or the word), the start of another flow, or a photo
\* that fails the organizer test.
C23_UploadModeStays ==
    /\ [][\A u \in Users :
            (/\ handled'.user = u /\ handled'.kind = "photo"
             /\ handled'.state = "admin_upload_photos"
             /\ Organizes(events, PayloadEvent(u), u))
            => /\ \E ph \in photos' \ photos :
                     /\ photos' = photos \cup {ph}
                     /\ ph.event_id = PayloadEvent(u)
               /\ SessionKept(u)]_vars
    /\ [][\A u \in Users :
            (/\ get_user_state(user_state, u).state = "admin_upload_photos"
             /\ get_user_state(user_state', u).state # "admin_upload_photos")
            => /\ handled'.user = u
               /\ \/ handled'.kind = "admin:photos_done"
                  \/ handled'.kind = "cmd:cancel"
                  \/ handled'.kind = "text" /\ out' = <<Reply(u, "cancelled")>>
                  \/ get_user_state(user_state', u).state # "None"
                  \/ /\ handled'.kind = "photo"
                     /\ ~Organizes(events, PayloadEvent(u), u)]_vars


\* the participant actions of C24 and what a refusal may render
ParticipantActions == {"p:info", "p:ask", "p:rate", "p:back_to_menu"}

RefusalTexts ==
    {"choose_event_first", "unknown_action", "event_not_found", "reg_full_name_prompt"}

\* C24: a participant action of a user who is not the organizer of the
\* current event and is not fully registered for it writes nothing to the
\* store, starts no flow other than the registration, and renders nothing
\* but a refusal or the registration prompt.
C24_ParticipantActionsNeedRegistration ==
    [][\A u \in Users :
          (/\ handled'.user = u
           /\ handled'.kind \in ParticipantActions
           /\ ~Organizes(events, get_current_event(user_context, u), u)
           /\ ~has_full_registration(participants, get_current_event(user_context, u), u))
          => /\ UNCHANGED store
             /\ \/ SessionKept(u)
                \/ get_user_state(user_state', u).state = "reg_full_name"
             /\ \A i \in DOMAIN out' : out'[i].text \in RefusalTexts]_vars


\* C25: in state reg_phone a contact that is not the sender's own, the
\* contact without a user id included, leaves state and payload as they
\* were; the sender's own contact with a readable number sets reg_company
\* with the number in the payload.
C25_OnlyOwnContactAdvances ==
    [][\A u \in Users, ph \in {P_plain, P_letters} :
          (handled'.user = u /\ handled'.kind = "contact" /\ handled'.state = "reg_phone")
          => /\ \A c \in ({NoUser} \cup Users) \ {u} :
                   on_contact(u, c, ph) => SessionKept(u) /\ UNCHANGED store
             /\ (on_contact(u, u, ph) /\ norm_phone(ph) # NullText) =>
                   /\ get_user_state(user_state', u).state = "reg_company"
                   /\ get_user_state(user_state', u).payload =
                         Put(get_user_state(user_state, u).payload, "phone_number", norm_phone(ph))]_vars


\* the state of u names in its payload an event that no longer exists
StalePayload(u) ==
    LET e == Get(get_user_state(user_state, u).payload, "event_id", NoEvent)
    IN  e # NoEvent /\ ~(\E ev \in events : ev.event_id = e)

\* C26: when the payload of the state of a user names an event that is
\* gone, a message of the kind the state takes (not the cancel word, not an
\* input the validator refuses) clears the state, writes nothing to the
\* store, raises nothing and renders exactly one message, event_not_found or
\* not_allowed.
C26_StalePayloadEndsFlow ==
    [][\A u \in Users :
          (/\ handled'.user = u
           /\ handled'.state # "None"
           /\ handled'.kind \in MessageKinds
           /\ handled'.kind \in AcceptedKinds(handled'.state)
           /\ StalePayload(u)
           /\ ~InvalidInput(u)
           /\ out' # <<Reply(u, "cancelled")>>)
          => /\ RowsOf(user_state', u) = {}
             /\ UNCHANGED store
             /\ out' \in {<<Reply(u, "event_not_found")>>, <<Reply(u, "not_allowed")>>}]_vars


\* C27: a step changes the session row (state and payload) and the
\* current-event row of no user but the one whose update it handles; a
\* step that handles no update of a user changes none.
C27_SessionsIndependent ==
    [][\A v \in Users :
          handled'.user # v =>
              /\ RowsOf(user_state', v) = RowsOf(user_state, v)
              /\ RowsOf(user_context', v) = RowsOf(user_context, v)]_vars

\* user 102 left the registration at the phone step; the organizer then
\* deleted the event: state, payload and current event of 102 are as they
\* were
C27_Witness ==
    /\ handled.user = 101 /\ handled.kind = "callback"
    /\ events = {} /\ seq.event = 1
    /\ RowsOf(user_context, 101) = {}
    /\ RowsOf(user_state, 102) =
          {[telegram_id |-> 102, state |-> "reg_phone",
            payload |-> [event_id |-> 1, src |-> "hub_joined", full_name |-> T_Al]]}
    /\ RowsOf(user_context, 102) = {[telegram_id |-> 102, current_event_id |-> 1]}


\* the users with a participant row of event e who are not its organizer
AttendeesNow(ps, ev, e) ==
    {r.telegram_id : r \in {x \in ps : x.event_id = e}} \ {r.admin_id : r \in {x \in ev : x.event_id = e}}

\* C28: the delivery of an alert takes as recipients exactly the users who
\* have a participant row of the event when the job is entered, without the
\* organizer, whenever they joined: a user who joins while the alert is
\* armed is among them from that step on, a user who leaves while it is
\* armed is not; every send call of the alert goes to one of the recipients
\* taken at entry, and when the job ends each of them has had one.
C28_RecipientsAtFiring ==
    /\ [][handled'.kind = "job_start" =>
            \A j \in jobs \ jobs' :
                (\E ev \in events : ev.event_id = j.event_id) =>
                    LET ids == AttendeesNow(participants, events, j.event_id)
                    IN  /\ ids # {} =>
                              \E r \in running' \ running :
                                  r.alert_id = j.alert_id /\ r.recipient_ids = ids /\ r.todo = ids
                        /\ ids = {} => running' = running]_vars
    /\ [][\A u \in Attendees, j \in jobs :
            (handled'.user = u /\ j \in jobs') =>
                /\ (handled'.kind = "command" /\ cmd_start(u, j.event_id)
                        /\ \E ev \in events : ev.event_id = j.event_id) =>
                        u \in AttendeesNow(participants', events', j.event_id)
                /\ (handled'.kind = "callback" /\ p_leave_yes(u)
                        /\ CurrentOf(u) = j.event_id /\ participants' # participants) =>
                        u \notin AttendeesNow(participants', events', j.event_id)]_vars
    /\ [](\A r \in running :
            \A i \in DOMAIN reminders :
                reminders[i].alert_id = r.alert_id => reminders[i].to \in r.recipient_ids \ r.todo)
    /\ [][handled'.kind = "job_finish" =>
            \A r \in running \ running' :
                {reminders[i].to : i \in {k \in DOMAIN reminders :
                                              reminders[k].alert_id = r.alert_id}}
                    = r.recipient_ids]_vars

\* the alert was scheduled at 00:00 for 00:15; user 103 joined and left, user
\* 102 is a participant: at 00:15 the job has ended, 102 has had the one
\* reminder, 103 none
C28_Witness ==
    /\ handled.kind = "job_finish" /\ now = 15
    /\ \E a \in alerts : a.id = 1 /\ a.run_at_iso = 15 /\ a.status = "sent"
    /\ Len(reminders) = 1 /\ reminders[1].to = 102 /\ reminders[1].alert_id = 1
    /\ get_participant_telegram_ids(participants, 1) = {101, 102}
    /\ RowsOf(user_state, 103) # {} /\ RowsOf(user_context, 103) = {}


\* C29: no delivery call of a notification and no send call of a reminder
\* goes to the organizer of the event it is about, who does hold a
\* participant row of the event from its creation on.
C29_OrganizerNeverTarget ==
    /\ [][\A i \in DOMAIN out' :
            out'[i].text = "broadcast" =>
                /\ ~Organizes(events, out'[i].ev, out'[i].to)
                /\ out'[i].to # handled'.user]_vars
    /\ [][Len(reminders') > Len(reminders) =>
            LET m == reminders'[Len(reminders')]
            IN  /\ \A r \in running : r.alert_id = m.alert_id => ~Organizes(events, r.event_id, m.to)
                /\ \A a \in alerts : a.id = m.alert_id =>
                        m.to # a.created_by /\ ~Organizes(events, a.event_id, m.to)]_vars
    /\ [][\A ev \in events' \ events :
            \E p \in participants' : p.event_id = ev.event_id /\ p.telegram_id = ev.admin_id]_vars

\* the organizer, who has a participant row, notifies the event after its
\* alert fired: the attendee got the reminder and gets the notification, the
\* organizer neither
C29_Witness ==
    /\ handled = [kind |-> "text", user |-> 101, state |-> "admin_notify_text"]
    /\ Organizes(events, 1, 101)
    /\ get_participant_telegram_ids(participants, 1) = {101, 102}
    /\ {out[i].to : i \in {k \in DOMAIN out : out[k].text = "broadcast"}} = {102}
    /\ reminders # <<>>
    /\ {reminders[i].to : i \in DOMAIN reminders} = {102}
    /\ \A a \in alerts : a.status = "sent"

\* the questions table after each question's sender is replaced by f's
Resent(qs, f) == {[r EXCEPT !.sender_telegram_id = f[r.id]] : r \in qs}

\* what admin:questions may show of an event, from a questions table
QuestionsShown(qs, e) == {questions_value(l) : l \in list_questions(qs, e)}

\* C30: what the questions view may show of an event is the same for every
\* other choice of the senders of the questions in the table, and what an
\* admin:questions step did show is among the views of each such table.
C30_SendersNotShown ==
    /\ [](\A e \in EventIds :
            \A f \in [{r.id : r \in questions} -> Attendees \cup Organizers] :
                QuestionsShown(Resent(questions, f), e) = QuestionsShown(questions, e))
    /\ [][\A u \in Organizers :
            (admin_questions(u) /\ handled'.kind = "admin:questions")
            => \A f \in [{r.id : r \in questions} -> Attendees \cup Organizers] :
                 /\ Len(out') = 1
                 /\ IF QuestionsShown(Resent(questions, f), CurrentOf(u)) = {<<>>}
                    THEN out'[1].text = "questions_none"
                    ELSE /\ out'[1].text = "questions_title"
                         /\ out'[1].value \in
                                QuestionsShown(Resent(questions, f), CurrentOf(u))]_vars

\* the organizer was shown two questions that two attendees sent
C30_Witness ==
    /\ handled.kind = "admin:questions"
    /\ Len(out) = 1 /\ out[1].text = "questions_title" /\ Len(out[1].value) = 2
    /\ \E q1, q2 \in questions :
          /\ q1.sender_telegram_id = 102 /\ q2.sender_telegram_id = 103
          /\ q1.created_at # q2.created_at

\* C31: every feedback row has rating +1 or -1.
C31_RatingIsPlusOrMinusOne ==
    \A r \in feedback : r.rating \in {1, -1}

\* what create_event_name is to leave behind for sender u and name text
Created(u, text) ==
    \E e \in EventIds :
        /\ ~event_exists(events, e)
        /\ events' = events \cup {[event_id |-> e, event_name |-> text, admin_id |-> u]}
        /\ event_content' = event_content \cup {EmptyContent(e)}
        /\ participants' = participants \cup
              {[event_id |-> e, telegram_id |-> u, full_name |-> NullText,
                phone_number |-> NullText, company_name |-> NullText]}
        /\ RowsOf(user_context', u) = {[telegram_id |-> u, current_event_id |-> e]}
        /\ RowsOf(user_state', u) = {}
        /\ UNCHANGED <<photos, questions, feedback, alerts>>
        /\ \A v \in Users \ {u} :
              RowsOf(user_context', v) = RowsOf(user_context, v)
              /\ RowsOf(user_state', v) = RowsOf(user_state, v)

\* C32 as stated: every text in state create_event_name that is not empty
\* after strip creates one event of the sender with empty content and the
\* sender's stub, makes it the sender's current event and leaves the sender
\* idle, and changes nothing else.
C32_AnyNameCreates ==
    [][\A u \in Users, raw \in {T_space, T_amp, T_Cancel} :
          (StateOf(u) = "create_event_name" /\ Strip(raw) # <<>>
           /\ (on_text_create_event_name(u, raw) \/ on_text_cancel(u, raw)))
          => Created(u, Strip(raw))]_vars

\* C32: the same for every such text other than the cancel word; the cancel
\* word creates nothing.
C32_NameCreatesButCancel ==
    [][\A u \in Users, raw \in {T_space, T_amp, T_Cancel} :
          /\ (Strip(raw) # <<>> /\ on_text_create_event_name(u, raw))
                => Created(u, Strip(raw))
          /\ (StateOf(u) = "create_event_name" /\ on_text_cancel(u, raw))
                => UNCHANGED store]_vars

\* user 102 created the second event next to the event of user 101, whose
\* agenda is set
C32_Witness ==
    /\ handled = [kind |-> "text", user |-> 102, state |-> "create_event_name"]
    /\ \E a, b \in events : a.admin_id = 101 /\ b.admin_id = 102 /\ a.event_id < b.event_id
    /\ \E c \in event_content : c.agenda # NullText
    /\ RowsOf(user_state, 102) = {}

\* the token of the Cancel button under the prompt of each flow
CancelButton ==
    [s \in {"admin_edit_agenda", "admin_notify_text"} |->
        IF s = "admin_edit_agenda" THEN "admin:agenda" ELSE "admin:back_to_menu"]

\* C33: after a step that answers the Cancel button under the prompt of the
\* flow the user is in, the user has no state row.
C33_CancelButtonEndsFlow ==
    [][\A u \in Users :
          (StateOf(u) \in DOMAIN CancelButton
           /\ handled'.user = u /\ handled'.kind = CancelButton[StateOf(u)])
          => RowsOf(user_state', u) = {}]_vars

\* C34: the current event of every user is unset or names an event that
\* exists.
C34_PointerNamesLiveEvent ==
    \A r \in user_context :
        r.current_event_id = NoEvent \/ event_exists(events, r.current_event_id)

\* C35: a question or feedback row that a step writes belongs to a user who
\* has a participant row of its event when the step is taken and is not
\* the organizer of that event.
C35_WritesOnlyByParticipants ==
    [][/\ \A q \in questions' \ questions :
             q.sender_telegram_id \in AttendeesNow(participants, events, q.event_id)
       /\ \A f \in feedback' \ feedback :
             f.telegram_id \in AttendeesNow(participants, events, f.event_id)]_vars

\* C36: the fire time of every alert with status scheduled is the stored
\* time of its event less the alert's lead.
C36_FireTimeFollowsEventTime ==
    \A a \in alerts :
        a.status = "scheduled" =>
            \A c \in event_content :
                c.event_id = a.event_id =>
                    c.event_time.set /\ a.run_at_iso = c.event_time.min - a.minutes_before

\* C37: an alert that has status scheduled has status sent later on, or is
\* gone with its event.
C37_ScheduledEventuallySent ==
    \A id \in 1..MaxAlerts :
        (\E a \in alerts : a.id = id /\ a.status = "scheduled")
            ~> (\A a \in alerts : a.id = id => a.status = "sent")

\* C38: a reg_phone row carries an event id and a full name of two or more
\* characters, a reg_company row also a phone number that is not empty and
\* is its own normal form; a user comes into reg_phone only by a text sent
\* in reg_full_name and into reg_company only by a contact sent in reg_phone.
C38_RegistrationPayload ==
    /\ [](\A r \in user_state :
            /\ r.state \in {"reg_phone", "reg_company"} =>
                  /\ Get(r.payload, "event_id", NoEvent) # NoEvent
                  /\ "full_name" \in DOMAIN r.payload
                  /\ r.payload.full_name # NullText
                  /\ Len(r.payload.full_name) >= 2
            /\ r.state = "reg_company" =>
                  /\ "phone_number" \in DOMAIN r.payload
                  /\ r.payload.phone_number \notin {NullText, <<>>}
                  /\ norm_phone(r.payload.phone_number) = r.payload.phone_number)
    /\ [][\A u \in Users :
            /\ (StateOf(u)' = "reg_phone" /\ StateOf(u) # "reg_phone") =>
                  (StateOf(u) = "reg_full_name" /\ handled' = [kind |-> "text", user |-> u,
                                                               state |-> "reg_full_name"])
            /\ (StateOf(u)' = "reg_company" /\ StateOf(u) # "reg_company") =>
                  (StateOf(u) = "reg_phone" /\ handled' = [kind |-> "contact", user |-> u,
                                                           state |-> "reg_phone"])]_vars

\* user 102 is asked for the company after the name " Al " and the own contact
C38_Witness ==
    /\ handled = [kind |-> "contact", user |-> 102, state |-> "reg_phone"]
    /\ \E r \in user_state :
          /\ r.telegram_id = 102 /\ r.state = "reg_company"
          /\ r.payload.full_name = T_Al /\ r.payload.phone_number = norm_phone(P_plain)

\* C39: the event in the payload of an admin_* state row is an event of
\* that user or is gone; the text that completes the agenda or the time flow
\* writes the row of the payload's event and of no other event, wherever
\* the user's current event points by then.
C39_AdminFlowKeepsItsEvent ==
    /\ [](\A r \in user_state :
            r.state \in AdminWriteStates =>
                LET e == Get(r.payload, "event_id", NoEvent)
                IN  e # NoEvent /\ (is_admin(events, e, r.telegram_id) \/ ~event_exists(events, e)))
    /\ [][\A u \in Users :
            LET e == Get(PayloadOf(u), "event_id", NoEvent) IN
            /\ (on_text_admin_edit_agenda(u, T_a) /\ event_exists(events, e)) =>
                  /\ get_event_content(event_content', e).agenda = T_a
                  /\ \A c \in event_content' \ event_content : c.event_id = e
            /\ (on_text_admin_set_time(u, T_time30) /\ event_exists(events, e)) =>
                  /\ get_event_content(event_content', e).event_time.set
                  /\ get_event_content(event_content', e).event_time.min = 30
                  /\ \A c \in event_content' \ event_content : c.event_id = e]_vars

\* user 101 organizes two events; the agenda of one of them is written, and
\* the user is asked for its time while the other event is the current one
C39_Witness ==
    /\ \E r \in user_state :
          /\ r.telegram_id = 101 /\ r.state = "admin_set_time"
          /\ is_admin(events, r.payload.event_id, 101)
          /\ CurrentOf(101) # r.payload.event_id
          /\ is_admin(events, CurrentOf(101), 101)
          /\ get_event_content(event_content, r.payload.event_id).agenda = T_a
          /\ get_event_content(event_content, CurrentOf(101)).agenda = NullText

\* C40: after a step of reg_company that answers reg_saved, the sender is
\* fully registered for the event of the payload.
C40_SavedMeansRegistered ==
    [][\A u \in Users :
          (StateOf(u) = "reg_company" /\ handled'.user = u /\ handled'.kind = "text"
           /\ Len(out') >= 1 /\ out'[1] = Reply(u, "reg_saved"))
          => has_full_registration(participants', Get(PayloadOf(u), "event_id", NoEvent), u)]_vars
====
